---- MODULE Spec2Model ----
(***************************************************************************)
(* rverflow: resolver of R package versions across CRAN, Bioconductor and  *)
(* GitHub.  The module models the version algebra (rversion.py), the       *)
(* backtracking resolver (solver.py) and the downgrade diff (report.py)    *)
(* as a state machine whose steps follow the control flow of build_report. *)
(*                                                                         *)
(* A Python str is a sequence of one-character strings, so that parsing a  *)
(* version is computed, not assumed: "4.3.0" is <<"4", ".", "3", ".", "0">>*)
(* and differs from "4.3" although both compare equal.  None stands for    *)
(* Python's None where a str is optional, Nil where an object is optional; *)
(* a dict is a function over its keys.                                     *)
(***************************************************************************)
EXTENDS Integers, Sequences, FiniteSets, TLC

None == <<"None">>

Nil == [nil |-> TRUE]

\* An absent source: "if request.source" reads None and "" alike.
NoSource == ""

\* None where a GitHub slug is optional: `slug or package` treats both alike.
NoSlug == ""

(***************************************************************************)
(* Characters                                                              *)
(***************************************************************************)
Digits == {"0", "1", "2", "3", "4", "5", "6", "7", "8", "9"}

Letters == {"a", "b", "c"}

Separators == {".", "_", "-"}

\* Code points of the characters the model uses (str comparison is by code point).
CharOrd(c) ==
    CASE c = " " -> 32
      [] c = "-" -> 45
      [] c = "." -> 46
      [] c = "0" -> 48
      [] c = "1" -> 49
      [] c = "2" -> 50
      [] c = "3" -> 51
      [] c = "4" -> 52
      [] c = "5" -> 53
      [] c = "6" -> 54
      [] c = "7" -> 55
      [] c = "8" -> 56
      [] c = "9" -> 57
      [] c = "_" -> 95
      [] c = "a" -> 97
      [] c = "b" -> 98
      [] c = "c" -> 99

DigitVal(c) == CharOrd(c) - 48

\* Suffixes ordered by their length only.
StrLess_by_length(s, t) == Len(s) < Len(t)

\* Python's str < str: lexicographic by code point, a proper prefix is smaller.
RECURSIVE StrLess(_, _)
StrLess(s, t) ==
    IF t = <<>> THEN FALSE
    ELSE IF s = <<>> THEN TRUE
    ELSE IF Head(s) # Head(t) THEN CharOrd(Head(s)) < CharOrd(Head(t))
    ELSE StrLess(Tail(s), Tail(t))

(***************************************************************************)
(* rversion.py                                                             *)
(***************************************************************************)
RECURSIVE StripLeft(_)
StripLeft(s) ==
    IF s # <<>> /\ Head(s) = " " THEN StripLeft(Tail(s)) ELSE s

RECURSIVE StripRight(_)
StripRight(s) ==
    IF s # <<>> /\ s[Len(s)] = " " THEN StripRight(SubSeq(s, 1, Len(s) - 1)) ELSE s

Strip(s) == StripRight(StripLeft(s))

\* re.split(r"[._-]", version) with the empty chunks dropped.
RECURSIVE SplitChunks(_, _)
SplitChunks(s, cur) ==
    IF s = <<>> THEN (IF cur = <<>> THEN <<>> ELSE <<cur>>)
    ELSE IF Head(s) \in Separators
         THEN (IF cur = <<>> THEN <<>> ELSE <<cur>>) \o SplitChunks(Tail(s), <<>>)
         ELSE SplitChunks(Tail(s), Append(cur, Head(s)))

Tokenize(version) ==
    LET v == Strip(version)
        parts == SplitChunks(v, <<>>)
    IN  IF v = <<>> THEN << <<"0">> >>
        ELSE IF parts = <<>> THEN << <<"0">> >> ELSE parts

\* Length of the leading digit run of a token.
RECURSIVE DigitRun(_)
DigitRun(tok) ==
    IF tok # <<>> /\ Head(tok) \in Digits THEN 1 + DigitRun(Tail(tok)) ELSE 0

RECURSIVE ParseInt(_, _)
ParseInt(ds, acc) ==
    IF ds = <<>> THEN acc ELSE ParseInt(Tail(ds), 10 * acc + DigitVal(Head(ds)))

\* One (number, suffix) component of RVersion.__init__.
Component(tok) ==
    LET k == DigitRun(tok)
    IN  IF k = Len(tok) THEN <<ParseInt(tok, 0), <<>> >>
        ELSE IF k > 0 /\ tok[k + 1] \in Letters
             THEN <<ParseInt(SubSeq(tok, 1, k), 0), SubSeq(tok, k + 1, Len(tok))>>
             ELSE <<0, tok>>

\* RVersion(raw).components
Components(raw) ==
    LET toks == Tokenize(raw)
    IN  [i \in 1..Len(toks) |-> Component(toks[i])]

\* A fill value that is not the zero component.
Fill_one == <<1, <<>> >>

Fill == <<0, <<>> >>

\* RVersion._compare over two component tuples (zip_longest with fillvalue (0, "")).
RECURSIVE CompareComponents(_, _)
CompareComponents(l, r) ==
    IF l = <<>> /\ r = <<>> THEN 0
    ELSE LET a == IF l = <<>> THEN Fill ELSE Head(l)
             b == IF r = <<>> THEN Fill ELSE Head(r)
         IN  IF a[1] # b[1] THEN (IF a[1] < b[1] THEN -1 ELSE 1)
             ELSE IF a[2] # b[2] THEN (IF StrLess(a[2], b[2]) THEN -1 ELSE 1)
             ELSE CompareComponents(IF l = <<>> THEN <<>> ELSE Tail(l),
                                    IF r = <<>> THEN <<>> ELSE Tail(r))

compare_versions(a, b) == CompareComponents(Components(a), Components(b))

\* RVersion.__eq__ and __hash__: the component tuples themselves, not padded.
RVersionEq(a, b) == Components(a) = Components(b)

\* RVersion.__lt__ (lines 47-48)
RVersionLt(a, b) == compare_versions(a, b) < 0

\* RVersion.__le__, which total_ordering derives from __lt__ and __eq__ (line 25).
RVersionLe(a, b) == RVersionLt(a, b) \/ RVersionEq(a, b)

\* VersionConstraint.is_satisfied_by; a constraint is [operator, version].
is_satisfied_by(constraint, candidate) ==
    LET cmp == compare_versions(candidate, constraint.version)
    IN  CASE constraint.operator = ">"  -> cmp > 0
          [] constraint.operator = ">=" -> cmp >= 0
          [] constraint.operator = "<"  -> cmp < 0
          [] constraint.operator = "<=" -> cmp <= 0
          [] constraint.operator \in {"==", "="} -> cmp = 0
          [] constraint.operator = "!=" -> cmp # 0

satisfies_all(candidate, constraints) ==
    \A i \in 1..Len(constraints) : is_satisfied_by(constraints[i], candidate)

(***************************************************************************)
(* constants.py                                                            *)
(***************************************************************************)
SUPPORTED_R_VERSIONS ==
    << <<"3", ".", "6", ".", "0">>,
       <<"3", ".", "6", ".", "3">>,
       <<"4", ".", "0", ".", "0">>,
       <<"4", ".", "0", ".", "2">>,
       <<"4", ".", "0", ".", "5">>,
       <<"4", ".", "1", ".", "0">>,
       <<"4", ".", "1", ".", "2">>,
       <<"4", ".", "1", ".", "3">>,
       <<"4", ".", "2", ".", "0">>,
       <<"4", ".", "2", ".", "1">>,
       <<"4", ".", "2", ".", "2">>,
       <<"4", ".", "2", ".", "3">>,
       <<"4", ".", "3", ".", "0">>,
       <<"4", ".", "3", ".", "1">>,
       <<"4", ".", "3", ".", "2">>,
       <<"4", ".", "3", ".", "3">>,
       <<"4", ".", "4", ".", "0">>,
       <<"4", ".", "4", ".", "1">> >>

\* The dict release -> R series, as its items in insertion order.
BIOCONDUCTOR_R_MATRIX ==
    << <<<<"3", ".", "1", "2">>, <<"4", ".", "0">>>>,
       <<<<"3", ".", "1", "3">>, <<"4", ".", "1">>>>,
       <<<<"3", ".", "1", "4">>, <<"4", ".", "1">>>>,
       <<<<"3", ".", "1", "5">>, <<"4", ".", "2">>>>,
       <<<<"3", ".", "1", "6">>, <<"4", ".", "2">>>>,
       <<<<"3", ".", "1", "7">>, <<"4", ".", "3">>>>,
       <<<<"3", ".", "1", "8">>, <<"4", ".", "3">>>>,
       <<<<"3", ".", "1", "9">>, <<"4", ".", "4">>>> >>

MatrixKeys == {BIOCONDUCTOR_R_MATRIX[i][1] : i \in 1..Len(BIOCONDUCTOR_R_MATRIX)}

\* MetadataProvider.bioconductor_r_version: BIOCONDUCTOR_R_MATRIX.get(release)
bioconductor_r_version(release) ==
    IF release \in MatrixKeys
    THEN (CHOOSE e \in {BIOCONDUCTOR_R_MATRIX[i] : i \in 1..Len(BIOCONDUCTOR_R_MATRIX)} :
              e[1] = release)[2]
    ELSE None

\* MetadataProvider.latest_bioconductor_release: sorted(keys)[-1], keys compared as str.
latest_bioconductor_release ==
    IF MatrixKeys = {} THEN None
    ELSE CHOOSE k \in MatrixKeys : \A o \in MatrixKeys : o = k \/ StrLess(o, k)

(***************************************************************************)
(* models.py: the records                                                  *)
(***************************************************************************)
VersionConstraint(operator, version) == [operator |-> operator, version |-> version]

Dependency(name, constraints, kind, optional) ==
    [name |-> name, constraints |-> constraints, kind |-> kind, optional |-> optional]

PackageVersion(name, version, repo, r_min, dependencies, bioc_release) ==
    [name |-> name, version |-> version, repo |-> repo, r_min |-> r_min,
     dependencies |-> dependencies, bioc_release |-> bioc_release]

v_1_0 == <<"1", ".", "0">>
v_2_0 == <<"2", ".", "0">>
v_9_9 == <<"9", ".", "9">>
v_3_5_0 == <<"3", ".", "5", ".", "0">>
v_3_4_4 == <<"3", ".", "4", ".", "4">>
v_1_1_4 == <<"1", ".", "1", ".", "4">>
v_1_1_3 == <<"1", ".", "1", ".", "3">>
v_1_0_0 == <<"1", ".", "0", ".", "0">>
v_0_4_12 == <<"0", ".", "4", ".", "1", "2">>
v_3_56_2 == <<"3", ".", "5", "6", ".", "2">>
v_3_60_0 == <<"3", ".", "6", "0", ".", "0">>
v_3_42_4 == <<"3", ".", "4", "2", ".", "4">>
v_3_41_5 == <<"3", ".", "4", "1", ".", "5">>
r_3_3 == <<"3", ".", "3">>
r_3_4 == <<"3", ".", "4">>
r_3_5 == <<"3", ".", "5">>
r_4_0 == <<"4", ".", "0">>
r_3_6_0 == <<"3", ".", "6", ".", "0">>
r_3_6_3 == <<"3", ".", "6", ".", "3">>
r_4_0_0 == <<"4", ".", "0", ".", "0">>
r_3_4_0 == <<"3", ".", "4", ".", "0">>
r_4_3 == <<"4", ".", "3">>
r_4_3_0 == <<"4", ".", "3", ".", "0">>
rel_3_12 == <<"3", ".", "1", "2">>
rel_3_17 == <<"3", ".", "1", "7">>
rel_3_19 == <<"3", ".", "1", "9">>

v_0_9 == <<"0", ".", "9">>
v_0_0_0 == <<"0", ".", "0", ".", "0">>
r_3_5_0 == <<"3", ".", "5", ".", "0">>

(***************************************************************************)
(* constants.py and metadata.py: normalisation of repository metadata      *)
(***************************************************************************)
BASE_R_PACKAGES ==
    {"base", "compiler", "datasets", "graphics", "grDevices", "grid", "methods",
     "parallel", "splines", "stats", "stats4", "tcltk", "tools", "utils"}

\* str.lower() left out.
Lower_identity(name) == name

\* str.lower() on the names the metadata holds; a name without capitals is itself.
Lower(name) ==
    CASE name = "R" -> "r"
      [] name = "grDevices" -> "grdevices"
      [] name = "edgeR" -> "edger"
      [] name = "PrettyName" -> "prettyname"
      [] name = "user/MyPkg" -> "user/mypkg"
      [] name = "A" -> "a"
      [] name = "B" -> "b"
      [] name = "C" -> "c"
      [] name = "D" -> "d"
      [] name = "X" -> "x"
      [] name = "Y" -> "y"
      [] OTHER -> name

\* One item of _parse_dep_section's result: the name and its parsed constraints.
Entry(name, constraints) == <<name, constraints>>

\* A DESCRIPTION payload, its dependency fields already split into entries.
Payload(depends, imports, suggests) ==
    [Depends |-> depends, Imports |-> imports, LinkingTo |-> <<>>, Suggests |-> suggests]

\* Lines 94-96 for one field of the payload.
SectionDependencies(section, kind, optional) ==
    [i \in 1..Len(section) |-> Dependency(section[i][1], section[i][2], kind, optional)]

\* Lines 72-75: the version of the last constraint with operator >= or >, or None.
RECURSIVE LowerBoundOf(_, _)
LowerBoundOf(constraints, candidate) ==
    IF constraints = <<>> THEN candidate
    ELSE LowerBoundOf(Tail(constraints),
             IF Head(constraints).operator \in {">=", ">"}
             THEN Head(constraints).version ELSE candidate)

\* The loop of _split_r_requirement over the dependencies left to visit.
RECURSIVE SplitR(_, _, _)
SplitR(dependencies, r_requirement, remaining) ==
    IF dependencies = <<>> THEN <<r_requirement, remaining>>
    ELSE LET dep == Head(dependencies)
             candidate == LowerBoundOf(dep.constraints, None)
         IN  IF Lower(dep.name) = "r"
             THEN SplitR(Tail(dependencies),
                      IF /\ candidate # None
                         /\ \/ r_requirement = None
                            \/ compare_versions(candidate, r_requirement) > 0
                      THEN candidate ELSE r_requirement,
                      remaining)
             ELSE SplitR(Tail(dependencies), r_requirement, Append(remaining, dep))

split_r_requirement(dependencies) == SplitR(dependencies, None, <<>>)

\* Line 98: the dependencies that are not base R packages.
NotBase(dep) == Lower(dep.name) \notin BASE_R_PACKAGES

\* Lines 97-99 once _split_r_requirement has returned split = <<r_min, remaining>>.
FilterBase(split) == <<SelectSeq(split[2], NotBase), split[1]>>

\* _build_dependencies: <<filtered, r_min>>.
build_dependencies(payload, with_optional) ==
    FilterBase(split_r_requirement(
        SectionDependencies(payload.Depends, "Depends", FALSE)
        \o SectionDependencies(payload.Imports, "Imports", FALSE)
        \o SectionDependencies(payload.LinkingTo, "LinkingTo", FALSE)
        \o (IF with_optional
            THEN SectionDependencies(payload.Suggests, "Suggests", TRUE) ELSE <<>>)))

\* The PackageVersion a normaliser returns, given built = <<dependencies, r_min>>.
Normalized(name, version, repo, built, release) ==
    PackageVersion(name, version, repo, built[2], built[1], release)

\* _normalize_cran_payload: _build_dependencies is called without include_optional.
normalize_cran_payload(package, payload, version) ==
    Normalized(package, version, "CRAN", build_dependencies(payload, FALSE), None)

\* _normalize_bioc_payload
normalize_bioc_payload(package, payload, release) ==
    Normalized(package, payload.Version, "Bioconductor",
               build_dependencies(payload.fields, FALSE), release)

\* _normalize_github_payload, for a DESCRIPTION that has a Package field.
normalize_github_payload(description) ==
    Normalized(description.Package, description.Version, "GitHub",
               build_dependencies(description.fields, FALSE), None)

\* SortVersionsDescending with the sort left out: the list keeps its order.
SortVersionsDescending_unsorted(seq) == seq

\* list.sort(key=RVersion(version), reverse=True): stable, highest version first.
RECURSIVE SortVersionsDescending(_)
SortVersionsDescending(seq) ==
    IF seq = <<>> THEN <<>>
    ELSE LET x == seq[Len(seq)]
             rest == SortVersionsDescending(SubSeq(seq, 1, Len(seq) - 1))
             later == {i \in 1..Len(rest) : compare_versions(rest[i].version, x.version) < 0}
             k == IF later = {} THEN Len(rest) + 1 ELSE CHOOSE i \in later : \A j \in later : i <= j
         IN  SubSeq(rest, 1, k - 1) \o <<x>> \o SubSeq(rest, k, Len(rest))

(***************************************************************************)
(* The repositories' answers: what fetchers.py downloads                   *)
(***************************************************************************)
NoPayload == Payload(<<>>, <<>>, <<>>)

NeedsR(version) == << Entry("R", << VersionConstraint(">=", version) >>) >>

\* fetch_cran_package: package -> raw["versions"], oldest first; a package absent
\* here makes the fetch raise MetadataFetchError.  "C" is known to no repository,
\* "S" depends on itself.
UpstreamCran ==
    [ggplot2 |-> << <<v_3_4_4, Payload(NeedsR(r_3_3), <<>>, <<>>)>>,
                    <<v_3_5_0, Payload(NeedsR(r_4_0), <<>>, <<>>)>> >>,
     foo     |-> << <<v_1_0, NoPayload>> >>,
     dplyr   |-> << <<v_1_1_4, Payload(NeedsR(r_3_5),
                        << Entry("rlang", << VersionConstraint(">=", v_1_0_0) >>) >>,
                        << Entry("foo", <<>>) >>)>> >>,
     rlang   |-> << <<v_0_4_12, NoPayload>>,
                    <<v_1_1_3, Payload(NeedsR(r_3_4), <<>>, <<>>)>> >>,
     D       |-> << <<v_1_0, NoPayload>>,
                    <<v_2_0, Payload(<< Entry("A", << VersionConstraint(">=", v_2_0) >>) >>,
                                     <<>>, <<>>)>> >>,
     A       |-> << <<v_1_0, Payload(<< Entry("B", <<>>) >>, <<>>, <<>>)>>,
                    <<v_2_0, Payload(<< Entry("B", <<>>), Entry("C", <<>>) >>, <<>>, <<>>)>> >>,
     B       |-> << <<v_1_0, Payload(NeedsR(r_3_5) \o << Entry("A", <<>>) >>, <<>>, <<>>)>> >>,
     X       |-> << <<v_1_0, Payload(<< Entry("Y", <<>>) >>, <<>>, <<>>)>>,
                    <<v_2_0, Payload(NeedsR(r_4_0) \o << Entry("Y", <<>>) >>, <<>>, <<>>)>> >>,
     Y       |-> << <<v_1_0, Payload(NeedsR(r_3_5) \o << Entry("X", <<>>) >>, <<>>, <<>>)>>,
                    <<v_2_0, Payload(NeedsR(r_4_0) \o << Entry("X", <<>>) >>, <<>>, <<>>)>> >>,
     cowplot |-> << <<v_1_1_3, Payload(NeedsR(r_3_5_0),
                        << Entry("rlang", <<>>), Entry("methods", <<>>),
                           Entry("grDevices", <<>>) >>,
                        <<>>)>> >>,
     S       |-> << <<v_1_0, Payload(<< Entry("S", << VersionConstraint(">=", v_2_0) >>) >>,
                                     <<>>, <<>>)>>,
                    <<v_2_0, Payload(NeedsR(r_4_0) \o << Entry("S", <<>>) >>, <<>>, <<>>)>> >>]

BiocPayload(version, fields) == [Version |-> version, fields |-> fields]

\* fetch_bioconductor_release: release -> package -> payload; a release absent here
\* makes the fetch raise MetadataFetchError.
UpstreamBioc ==
    [r \in {rel_3_17, rel_3_19} |->
        IF r = rel_3_17
        THEN [limma |-> BiocPayload(v_3_56_2, Payload(NeedsR(r_3_6_0), <<>>, <<>>)),
              edgeR |-> BiocPayload(v_3_42_4,
                            Payload(NeedsR(r_3_6_0),
                                    << Entry("limma", << VersionConstraint(">=", v_3_41_5) >>),
                                       Entry("rlang", <<>>) >>,
                                    <<>>)),
              rlang |-> BiocPayload(v_0_9, NoPayload)]
        ELSE [limma |-> BiocPayload(v_3_60_0, Payload(NeedsR(r_3_6_0), <<>>, <<>>))]]

\* fetch_github_description, parsed: owner/repo -> DESCRIPTION.
UpstreamGithub ==
    [slug \in {"user/MyPkg"} |->
        [Package |-> "PrettyName", Version |-> v_1_0, fields |-> NoPayload]]

\* "/" in package
HasSlash(package) == package \in {"user/MyPkg", "user/mypkg"}

(***************************************************************************)
(* metadata.py: the provider's answers once its memos are filled           *)
(***************************************************************************)
\* Every package name a request can carry.
PackageNames ==
    {"ggplot2", "foo", "dplyr", "rlang", "D", "A", "B", "C", "X", "Y", "S", "cowplot",
     "limma", "edgeR", "methods", "grDevices", "PrettyName", "user/MyPkg"}

\* get_cran_versions (lines 212-221): the normalised versions, newest first.
NormalizeAll(package, raw) ==
    [i \in 1..Len(raw) |-> normalize_cran_payload(package, raw[i][2], raw[i][1])]

CranVersionsOf(package) == SortVersionsDescending(NormalizeAll(package, UpstreamCran[package]))

\* MetadataProvider._cran, filled.
CranIndex == [package \in DOMAIN UpstreamCran |-> CranVersionsOf(package)]

\* MetadataProvider._bioc, filled: release -> package -> its one version.
BiocMemo ==
    [release \in DOMAIN UpstreamBioc |->
        [package \in DOMAIN UpstreamBioc[release] |->
            normalize_bioc_payload(package, UpstreamBioc[release][package], release)]]

BiocReleases == DOMAIN UpstreamBioc

\* get_github_version for a repository upstream knows.
GithubIndex == [slug \in DOMAIN UpstreamGithub |-> normalize_github_payload(UpstreamGithub[slug])]

Raised == [raised |-> TRUE, versions |-> <<>>]

Returned(versions) == [raised |-> FALSE, versions |-> versions]

\* MetadataProvider.get_versions: the version list, or Raised when the call raises
\* MetadataFetchError (the fetch fails, or the release does not hold the package).
get_versions(package, source, bioc_release) ==
    IF source = "cran"
    THEN (IF package \notin DOMAIN UpstreamCran THEN Raised
          ELSE Returned(CranIndex[package]))
    ELSE IF source \in {"bioc", "bioconductor"}
    THEN (IF bioc_release = None THEN Raised
          ELSE IF bioc_release \notin BiocReleases THEN Raised
          ELSE IF package \notin DOMAIN UpstreamBioc[bioc_release] THEN Raised
          ELSE Returned(<< BiocMemo[bioc_release][package] >>))
    ELSE IF source = "github"
    THEN (IF ~HasSlash(package) THEN Raised
          ELSE IF package \notin DOMAIN UpstreamGithub THEN Raised
          ELSE Returned(<< GithubIndex[package] >>))
    ELSE Raised

(***************************************************************************)
(* solver.py: candidate generation                                         *)
(***************************************************************************)
\* PackageRequest (github_ref and github_token are carried along and never read
\* by the search; they are left out).
PackageRequest(package, source, constraints, required_by, bioc_release) ==
    [package |-> package, source |-> source, constraints |-> constraints,
     required_by |-> required_by, bioc_release |-> bioc_release, github_slug |-> NoSlug]

\* Line 248: the release a Bioconductor source is read at.
ReleaseFor(request, prefer) ==
    IF request.bioc_release # None THEN request.bioc_release
    ELSE IF prefer # None THEN prefer
    ELSE latest_bioconductor_release

\* Line 253
SlugOf(request) ==
    IF request.github_slug # NoSlug THEN request.github_slug ELSE request.package

\* The branches of _load_versions_for_source, each ending in get_versions.
LoadVersions(request, source, release, slug) ==
    IF source \notin {"cran", "bioc", "bioconductor", "github"} THEN Raised
    ELSE IF source \in {"bioc", "bioconductor"} /\ release = None THEN Raised
    ELSE get_versions(IF source = "github" THEN slug ELSE request.package,
                      IF source \in {"bioc", "bioconductor"} THEN "bioc" ELSE source,
                      IF source \in {"bioc", "bioconductor"} THEN release ELSE None)

\* EnvironmentSolver._load_versions_for_source
load_versions_for_source(request, source, prefer) ==
    LoadVersions(request, source, ReleaseFor(request, prefer), SlugOf(request))

\* source_order without the requested source: the fallbacks only.
SourceOrder_fallbacks(request) == <<"cran", "bioc">>

\* source_order of _candidate_versions (lines 207-212)
SourceOrder(request) ==
    LET first == IF request.source # NoSource THEN <<request.source>> ELSE <<>>
        withCran == IF \E i \in 1..Len(first) : first[i] = "cran"
                    THEN first ELSE Append(first, "cran")
    IN  IF \E i \in 1..Len(withCran) : withCran[i] = "bioc"
        THEN withCran ELSE Append(withCran, "bioc")

\* repo.lower().startswith(src[:4])
RepoStartsWith(repo, src) ==
    \/ repo = "CRAN" /\ src = "cran"
    \/ repo = "Bioconductor" /\ src \in {"bioc", "bioconductor"}
    \/ repo = "GitHub" /\ src = "github"

\* source_priority (lines 232-237)
source_priority(version, source_order) ==
    LET hits == {i \in 1..Len(source_order) : RepoStartsWith(version.repo, source_order[i])}
    IN  IF hits = {} THEN Len(source_order)
        ELSE (CHOOSE i \in hits : \A j \in hits : i <= j) - 1

\* r_min_unmet with the test of lines 222-223 left out.
r_min_unmet_ignored(version, candidate_r) == FALSE

\* Lines 222-223: the version needs a newer R than the candidate R.
r_min_unmet(version, candidate_r) ==
    version.r_min # None /\ compare_versions(candidate_r, version.r_min) < 0

\* constraints_unmet with the test of lines 224-225 left out.
constraints_unmet_ignored(version, constraints) == FALSE

\* Lines 224-225: the version fails one of the aggregated constraints.
constraints_unmet(version, constraints) ==
    constraints # <<>> /\ ~satisfies_all(version.version, constraints)

\* The filter of lines 221-230 applied to one source's list, in order.
RECURSIVE FilterVersions(_, _, _, _)
FilterVersions(versions, candidate_r, constraints, results) ==
    IF versions = <<>> THEN results
    ELSE LET version == Head(versions)
             skip == \/ r_min_unmet(version, candidate_r)
                     \/ constraints_unmet(version, constraints)
                     \/ \E i \in 1..Len(results) :
                            /\ results[i].repo = version.repo
                            /\ results[i].version = version.version
         IN  FilterVersions(Tail(versions), candidate_r, constraints,
                            IF skip THEN results ELSE Append(results, version))

\* Lines 217-230 for one source: got is what _load_versions_for_source gave.
AddVersions(got, candidate_r, constraints, results) ==
    IF got.raised THEN results
    ELSE FilterVersions(got.versions, candidate_r, constraints, results)

\* CollectVersions with a loop that a raising source ends.
RECURSIVE CollectVersions_until_raise(_, _, _, _, _, _)
CollectVersions_until_raise(request, sources, prefer, candidate_r, constraints, results) ==
    IF sources = <<>> THEN results
    ELSE IF load_versions_for_source(request, Head(sources), prefer).raised THEN results
    ELSE CollectVersions_until_raise(request, Tail(sources), prefer, candidate_r, constraints,
             AddVersions(load_versions_for_source(request, Head(sources), prefer),
                         candidate_r, constraints, results))

\* The loop over source_order of lines 216-230.
RECURSIVE CollectVersions(_, _, _, _, _, _)
CollectVersions(request, sources, prefer, candidate_r, constraints, results) ==
    IF sources = <<>> THEN results
    ELSE CollectVersions(request, Tail(sources), prefer, candidate_r, constraints,
             AddVersions(load_versions_for_source(request, Head(sources), prefer),
                         candidate_r, constraints, results))

\* list.sort(key=source_priority): stable, lowest index first.
RECURSIVE SortBySourcePriority(_, _)
SortBySourcePriority(seq, source_order) ==
    IF seq = <<>> THEN <<>>
    ELSE LET x == seq[Len(seq)]
             rest == SortBySourcePriority(SubSeq(seq, 1, Len(seq) - 1), source_order)
             later == {i \in 1..Len(rest) :
                            source_priority(rest[i], source_order) > source_priority(x, source_order)}
             k == IF later = {} THEN Len(rest) + 1 ELSE CHOOSE i \in later : \A j \in later : i <= j
         IN  SubSeq(rest, 1, k - 1) \o <<x>> \o SubSeq(rest, k, Len(rest))

\* EnvironmentSolver._candidate_versions
candidate_versions_for(request, candidate_r, prefer, constraints) ==
    SortBySourcePriority(
        SortVersionsDescending(
            CollectVersions(request, SourceOrder(request), prefer, candidate_r,
                            constraints, <<>>)),
        SourceOrder(request))

(***************************************************************************)
(* solver.py: compute_resolution's preparation                             *)
(***************************************************************************)
TargetContext(identifier, package, source, constraints, bioc_release) ==
    [identifier |-> identifier, package |-> package, source |-> source,
     constraints |-> constraints, bioc_release |-> bioc_release, github_slug |-> NoSlug]

IsBiocTarget(target) == target.source \in {"bioc", "bioconductor"}

\* The release _bioc_release_requirements looks up for a target (line 304).
TargetRelease(target, default_release) ==
    IF target.bioc_release # None THEN target.bioc_release
    ELSE IF default_release # None THEN default_release
    ELSE latest_bioconductor_release

\* _bioc_release_requirements: the dict release -> required R it returns.
bioc_release_requirements(tgts, default_release) ==
    LET releases == {TargetRelease(tgts[i], default_release) :
                        i \in {j \in 1..Len(tgts) : IsBiocTarget(tgts[j])}}
        known == {rel \in releases : rel # None /\ bioconductor_r_version(rel) # None}
    IN  [rel \in known |-> bioconductor_r_version(rel)]

\* The cloned targets after _bioc_release_requirements has set target.bioc_release.
ClonedTargets(tgts, default_release) ==
    [i \in 1..Len(tgts) |->
        IF /\ IsBiocTarget(tgts[i])
           /\ TargetRelease(tgts[i], default_release) # None
           /\ bioconductor_r_version(TargetRelease(tgts[i], default_release)) # None
        THEN [tgts[i] EXCEPT !.bioc_release = TargetRelease(tgts[i], default_release)]
        ELSE tgts[i]]

\* A set of RVersion keeps the first of the elements that are == (same components).
RECURSIVE DedupRVersions(_)
DedupRVersions(seq) ==
    IF seq = <<>> THEN <<>>
    ELSE LET front == DedupRVersions(SubSeq(seq, 1, Len(seq) - 1))
             x == seq[Len(seq)]
         IN  IF \E i \in 1..Len(front) : RVersionEq(front[i], x) THEN front
             ELSE Append(front, x)

\* The places x can take in the sorted list r: sorted() is stable, so elements that
\* compare equal keep the order in which the set yields them, which is unspecified.
InsertSorted(r, x) ==
    LET lo == Cardinality({i \in 1..Len(r) : compare_versions(r[i], x) < 0})
        hi == Cardinality({i \in 1..Len(r) : compare_versions(r[i], x) <= 0})
    IN  {SubSeq(r, 1, k - 1) \o <<x>> \o SubSeq(r, k, Len(r)) : k \in (lo + 1)..(hi + 1)}

\* sorted(set(seq)): every ascending arrangement of the elements of seq.
RECURSIVE SortedArrangements(_)
SortedArrangements(seq) ==
    IF seq = <<>> THEN {<<>>}
    ELSE UNION {InsertSorted(r, seq[Len(seq)]) :
                    r \in SortedArrangements(SubSeq(seq, 1, Len(seq) - 1))}

\* Line 349: the supported versions as a sorted list.
SortedSupported == SortedArrangements(DedupRVersions(SUPPORTED_R_VERSIONS))

\* The values of a dict of strings, as a list without repetition of equal strings.
RECURSIVE ValuesOf(_, _)
ValuesOf(dict, keys) ==
    IF keys = {} THEN <<>>
    ELSE LET k == CHOOSE x \in keys : TRUE
             rest == ValuesOf(dict, keys \ {k})
         IN  IF \E i \in 1..Len(rest) : rest[i] = dict[k] THEN rest ELSE Append(rest, dict[k])

\* set(list) then sorted(): x joins the set unless an == element is there already.
RECURSIVE AddAndSort(_, _)
AddAndSort(lists, required) ==
    IF required = <<>> THEN lists
    ELSE AddAndSort(
             UNION {IF \E i \in 1..Len(r) : RVersionEq(r[i], Head(required))
                    THEN {r} ELSE InsertSorted(r, Head(required)) : r \in lists},
             Tail(required))

\* Lines 349-352: the lists sorted(set(supported + required)) can be.
RCandidateLists(requirements) ==
    AddAndSort(SortedSupported, ValuesOf(requirements, DOMAIN requirements))

(***************************************************************************)
(* cache.py and metadata.py: the provider's memos, its cache, its fetches   *)
(***************************************************************************)
NoEntries == [key \in {} |-> {}]

\* A cache directory without files; the first segment names the subdirectory.
EmptyCache == [cran |-> NoEntries, bioconductor |-> NoEntries, github |-> NoEntries]

\* MetadataProvider.__init__ over a cache directory that holds disk.
NewProvider(disk) ==
    [cran |-> NoEntries, bioc |-> NoEntries, github |-> NoEntries, cache |-> disk]

\* MetadataCache.exists for the file <directory>/<key>.json
cache_exists(cache, directory, key) == key \in DOMAIN cache[directory]

\* MetadataCache.load of a file that exists
cache_load(cache, directory, key) == cache[directory][key]

\* MetadataCache.store
cache_store(cache, data, directory, key) ==
    [cache EXCEPT ![directory] = (key :> data) @@ @]

\* fetch_cran_package: the download raises when the network is down or crandb
\* does not know the package.
fetch_cran_package(package, up) ==
    IF up /\ package \in DOMAIN UpstreamCran
    THEN [raised |-> FALSE, raw |-> UpstreamCran[package]]
    ELSE [raised |-> TRUE, raw |-> <<>>]

\* fetch_bioconductor_release, all categories together.
fetch_bioconductor_release(release, up) ==
    IF up /\ release \in DOMAIN UpstreamBioc
    THEN [raised |-> FALSE, raw |-> UpstreamBioc[release]]
    ELSE [raised |-> TRUE, raw |-> NoEntries]

\* The commit a ref of the repository points at; no ref means the default branch.
CommitOf(ref) == IF ref = "dev" THEN "c2" ELSE "c1"

\* fetch_github_description
fetch_github_description(slug, ref, up) ==
    IF up /\ slug \in DOMAIN UpstreamGithub
    THEN [raised |-> FALSE, commit |-> CommitOf(ref), description |-> UpstreamGithub[slug]]
    ELSE [raised |-> TRUE, commit |-> "", description |-> [Package |-> "", Version |-> <<>>,
                                                           fields |-> NoPayload]]

\* AfterFetch with the exception swallowed: the statements after the download
\* run whether or not it raised.
AfterFetch_swallowed(raised, before, after) == after

\* The fetch is the first statement that can raise: an exception leaves the
\* provider as it was, a return lets the statements after it run.
AfterFetch(raised, before, after) == IF raised THEN before ELSE after

\* What a provider call did: the provider after it, whether it went upstream,
\* whether the download succeeded, whether the call raised MetadataFetchError.
Outcome(after, attempted, fetched, raised) ==
    [after |-> after, attempted |-> attempted, fetched |-> fetched, raised |-> raised]

\* get_cran_versions, lines 213-221: normalise, sort, memoise.
CranMemoised(p, package, raw) ==
    [p EXCEPT !.cran = (package :> SortVersionsDescending(NormalizeAll(package, raw))) @@ @]

\* get_cran_versions, lines 210-211, with got what fetch_cran_package gave.
CranFetched(p, package, got) ==
    Outcome(AfterFetch(got.raised, p,
                CranMemoised([p EXCEPT !.cache = cache_store(@, got.raw, "cran", package)],
                             package, got.raw)),
            TRUE, ~got.raised, got.raised)

\* MetadataProvider.get_cran_versions
get_cran_versions(p, package, up) ==
    IF package \in DOMAIN p.cran THEN Outcome(p, FALSE, FALSE, FALSE)
    ELSE IF cache_exists(p.cache, "cran", package)
    THEN Outcome(CranMemoised(p, package, cache_load(p.cache, "cran", package)),
                 FALSE, FALSE, FALSE)
    ELSE CranFetched(p, package, fetch_cran_package(package, up))

\* _load_bioc_release, lines 233-240: normalise and memoise.
BiocMemoised(p, release, raw) ==
    [p EXCEPT !.bioc = (release :> [name \in DOMAIN raw |->
                                       normalize_bioc_payload(name, raw[name], release)]) @@ @]

\* _load_bioc_release, lines 230-232, with got what fetch_bioconductor_release gave.
BiocFetched(p, release, got) ==
    Outcome(AfterFetch(got.raised, p,
                BiocMemoised([p EXCEPT !.cache =
                                 cache_store(@, got.raw, "bioconductor", release)],
                             release, got.raw)),
            TRUE, ~got.raised, got.raised)

\* MetadataProvider._load_bioc_release
load_bioc_release(p, release, up) ==
    IF release \in DOMAIN p.bioc THEN Outcome(p, FALSE, FALSE, FALSE)
    ELSE IF cache_exists(p.cache, "bioconductor", release)
    THEN Outcome(BiocMemoised(p, release, cache_load(p.cache, "bioconductor", release)),
                 FALSE, FALSE, FALSE)
    ELSE BiocFetched(p, release, fetch_bioconductor_release(release, up))

\* get_bioconductor_versions, lines 244-246, with loaded what _load_bioc_release did.
BiocLookup(loaded, package, release) ==
    IF loaded.raised THEN loaded
    ELSE [loaded EXCEPT !.raised = package \notin DOMAIN loaded.after.bioc[release]]

\* MetadataProvider.get_bioconductor_versions
get_bioconductor_versions(p, package, release, up) ==
    BiocLookup(load_bioc_release(p, release, up), package, release)

\* get_github_version, lines 258-281, with got what fetch_github_description gave.
GithubFetched(p, slug, got) ==
    Outcome(AfterFetch(got.raised, p,
                [p EXCEPT !.github = (<<slug, got.commit>> :>
                                         normalize_github_payload(got.description)) @@ @,
                          !.cache = cache_store(@, got.description, "github",
                                                <<slug, got.commit>>)]),
            TRUE, ~got.raised, got.raised)

\* MetadataProvider.get_github_version: the download is its first statement.
get_github_version(p, slug, ref, up) ==
    GithubFetched(p, slug, fetch_github_description(slug, ref, up))

(***************************************************************************)
(* The state of a run of build_report                                      *)
(***************************************************************************)
\* include_optional is set for single targets only: the normalised records hold no
\* optional dependency, so the flag changes no step of the search.
VARIABLES
    targets, include_optional, prefer_bioc_release, locked_r, \* build_report's arguments
    pc,                    \* where the run is: "compute_resolution", "candidates",
                           \* "solve", "report", "done"
    mode,                  \* which compute_resolution runs: "minimal" or "locked"
    cloned_targets, release_requirements, candidate_versions, candidate_i, conflicts,
    state,                 \* ResolutionState of the solve in progress
    target_i,              \* solve's position in the targets
    stack,                 \* the active calls of _resolve_package, innermost last
    call,                  \* the request _resolve_package is being called with, or Nil
    error,                 \* the ResolutionError in flight, or Nil
    minimal_plan, minimal_conflicts, locked_plan, locked_conflicts,
    outcome,               \* "running", "returned", or the exception that escaped
    downgrades,            \* what generate_text lists as downgrades
    solve_log,             \* what became of each candidate R, in order
    run,                   \* 1 for the first build_report of the process, 2 for a repeat
    first_report,          \* the report of run 1 once a repeat has begun, else Nil
    set_order,             \* {} or {the list sorted(set(...)) made of the R versions}
    provider,              \* the MetadataProvider: its memos _cran, _bioc, _github, its cache
    calls,                 \* the provider calls made so far, oldest first
    payload, normalized,   \* a payload handed to _build_dependencies, and what it returned
    fs, last_op,           \* the cache directory, and the last MetadataCache call on it
    operands, compared,    \* version strings, and what the comparisons of them returned
    responses,             \* what each category URL of a Bioconductor release answers
    fetched_release,       \* what fetch_bioconductor_release made of the responses
    config, args, contexts \* a project configuration, the solve command's arguments,
                           \* and the target contexts and release requirements made of them

vars == <<targets, include_optional, prefer_bioc_release, locked_r, pc, mode,
          cloned_targets, release_requirements, candidate_versions, candidate_i,
          conflicts, state, target_i, stack, call, error, minimal_plan,
          minimal_conflicts, locked_plan, locked_conflicts, outcome, downgrades,
          solve_log, run, first_report, set_order, provider, calls,
          payload, normalized, fs, last_op, operands, compared, responses,
          fetched_release, config, args, contexts>>

inputs == <<targets, include_optional, prefer_bioc_release, locked_r>>

provider_vars == <<provider, calls>>

normalize_vars == <<payload, normalized>>

cache_vars == <<fs, last_op>>

compare_vars == <<operands, compared>>

release_vars == <<responses, fetched_release>>

command_vars == <<config, args, contexts>>

\* The variables outside build_report and the provider: those of the
\* specifications of single functions and classes.
function_vars == <<normalize_vars, cache_vars, compare_vars, release_vars, command_vars>>

cr_vars == <<cloned_targets, release_requirements, candidate_versions, candidate_i, conflicts>>

report_vars == <<minimal_plan, minimal_conflicts, locked_plan, locked_conflicts,
                 outcome, downgrades>>

resolver_vars == <<inputs, run, first_report, set_order, pc, mode, cr_vars, state, target_i,
                   stack, call, error, report_vars, solve_log>>

MaxTargets == 2

\* The targets a configuration may declare.
t_ggplot2 == TargetContext("ggplot2", "ggplot2", "cran", <<>>, None)

t_ggplot2_new == TargetContext("ggplot2", "ggplot2", "cran", << VersionConstraint(">=", v_3_5_0) >>, None)

t_foo_9_9 == TargetContext("foo", "foo", "cran", << VersionConstraint(">=", v_9_9) >>, None)

t_dplyr == TargetContext("dplyr", "dplyr", "cran", <<>>, None)

t_rlang_old == TargetContext("rlang", "rlang", "cran", << VersionConstraint("<", v_1_0) >>, None)

t_D == TargetContext("D", "D", "cran", <<>>, None)

t_A == TargetContext("A", "A", "cran", <<>>, None)

t_limma_3_17 == TargetContext("limma", "limma", "bioc", <<>>, rel_3_17)

t_limma == TargetContext("limma", "limma", "bioc", <<>>, None)

t_edgeR == TargetContext("edgeR", "edgeR", "bioconductor", <<>>, rel_3_17)

t_X == TargetContext("X", "X", "cran", <<>>, None)

t_cowplot == TargetContext("cowplot", "cowplot", "cran", <<>>, None)

\* build_target_contexts for a GitHub target (lines 278-283): the package name is
\* read from the repository's DESCRIPTION, the slug is kept in github_slug.
GithubTarget(slug) ==
    [TargetContext(slug, GithubIndex[slug].name, "github", <<>>, None)
        EXCEPT !.github_slug = slug]

t_github == GithubTarget("user/MyPkg")

TargetChoices ==
    {t_ggplot2, t_ggplot2_new, t_foo_9_9, t_dplyr, t_rlang_old, t_D, t_A,
     t_limma_3_17, t_limma, t_edgeR, t_X, t_cowplot, t_github}

\* The target lists: up to MaxTargets targets, no target listed twice.
TargetLists ==
    {list \in UNION {[1..n -> TargetChoices] : n \in 1..MaxTargets} :
        \A i, j \in DOMAIN list : list[i] = list[j] => i = j}

t_S == TargetContext("S", "S", "cran", <<>>, None)

\* A Bioconductor package declared without a source: config.py makes it "cran".
t_limma_cran == TargetContext("limma", "limma", "cran", <<>>, None)

\* Targets with dependency cycles (X and Y, A and B, S and itself), targets
\* that CRAN does not know, and one no version of which is admissible.
CycleChoices == {t_X, t_A, t_S, t_limma_cran, t_edgeR, t_github, t_foo_9_9}

CycleLists ==
    {list \in UNION {[1..n -> CycleChoices] : n \in 1..MaxTargets} :
        \A i, j \in DOMAIN list : list[i] = list[j] => i = j}

\* No lock, a supported R, and an R older than every supported one.
LockChoices == {None, r_3_6_3, r_3_4_0}

EmptyDict == [n \in {} |-> Nil]

ResolutionState(candidate_r) ==
    [candidate_r |-> candidate_r,
     assignments |-> EmptyDict,
     constraints |-> [n \in PackageNames |-> <<>>],
     visiting |-> {}]

NoState == ResolutionState(None)

\* No build_report runs.
NoBuildReport ==
    /\ targets = <<>>
    /\ include_optional = FALSE
    /\ prefer_bioc_release = None
    /\ locked_r = None
    /\ pc = "done"
    /\ mode = "minimal"
    /\ cloned_targets = <<>>
    /\ release_requirements = EmptyDict
    /\ candidate_versions = <<>>
    /\ candidate_i = 0
    /\ conflicts = <<>>
    /\ state = NoState
    /\ target_i = 0
    /\ stack = <<>>
    /\ call = Nil
    /\ error = Nil
    /\ minimal_plan = Nil
    /\ minimal_conflicts = <<>>
    /\ locked_plan = Nil
    /\ locked_conflicts = <<>>
    /\ outcome = "returned"
    /\ downgrades = {}
    /\ solve_log = <<>>
    /\ run = 1
    /\ first_report = Nil
    /\ set_order = {}

NoProviderCalls == provider = NewProvider(EmptyCache) /\ calls = <<>>

NoNormalisation == payload = Nil /\ normalized = Nil

NoCacheUse == fs = Nil /\ last_op = Nil

NoComparison == operands = Nil /\ compared = Nil

NoReleaseFetch == responses = Nil /\ fetched_release = Nil

NoCommand == config = Nil /\ args = Nil /\ contexts = Nil

\* Each specification moves the variables of one component; the others rest.
AtRestExcept(component) ==
    /\ IF component = "build_report" THEN TRUE ELSE NoBuildReport
    /\ IF component = "provider" THEN TRUE ELSE NoProviderCalls
    /\ IF component = "normalize" THEN TRUE ELSE NoNormalisation
    /\ IF component = "cache" THEN TRUE ELSE NoCacheUse
    /\ IF component = "compare" THEN TRUE ELSE NoComparison
    /\ IF component = "release" THEN TRUE ELSE NoReleaseFetch
    /\ IF component = "command" THEN TRUE ELSE NoCommand

InitFor(lists) ==
    /\ targets \in lists
    /\ include_optional \in BOOLEAN
    /\ include_optional => Len(targets) = 1
    /\ prefer_bioc_release \in {None, rel_3_17}
    /\ locked_r \in LockChoices
    /\ pc = "compute_resolution"
    /\ mode = "minimal"
    /\ cloned_targets = <<>>
    /\ release_requirements = EmptyDict
    /\ candidate_versions = <<>>
    /\ candidate_i = 0
    /\ conflicts = <<>>
    /\ state = NoState
    /\ target_i = 0
    /\ stack = <<>>
    /\ call = Nil
    /\ error = Nil
    /\ minimal_plan = Nil
    /\ minimal_conflicts = <<>>
    /\ locked_plan = Nil
    /\ locked_conflicts = <<>>
    /\ outcome = "running"
    /\ downgrades = {}
    /\ solve_log = <<>>
    /\ run = 1
    /\ first_report = Nil
    /\ set_order = {}
    /\ AtRestExcept("build_report")

Init == InitFor(TargetLists)

(***************************************************************************)
(* solver.py: the search, one step per call, loop turn or handler          *)
(***************************************************************************)
\* exceptions.ResolutionError; message is the set of the texts joined into it, and a
\* candidates of None is the empty list that "error.candidates or []" makes of it.
ResolutionError(package, required_by, message, candidates) ==
    [package |-> package, required_by |-> required_by, message |-> message,
     candidates |-> candidates]

PackageSelection(candidate) ==
    [package |-> candidate.name, version |-> candidate.version, repo |-> candidate.repo,
     dependencies |-> candidate.dependencies, r_min |-> candidate.r_min,
     bioc_release |-> candidate.bioc_release]

\* dict[key] = value
Put(dict, key, value) ==
    [k \in DOMAIN dict \cup {key} |-> IF k = key THEN value ELSE dict[k]]

\* del dict[key]
Del(dict, key) == [k \in DOMAIN dict \ {key} |-> dict[k]]

\* EnvironmentSolver._infer_source
infer_source(parent) == IF parent.repo = "Bioconductor" THEN "bioc" ELSE NoSource

\* EnvironmentSolver._infer_bioc_release
infer_bioc_release(parent, parent_release, prefer) ==
    IF parent.repo = "Bioconductor"
    THEN (IF parent.bioc_release # None THEN parent.bioc_release
          ELSE IF parent_release # None THEN parent_release
          ELSE prefer)
    ELSE None

\* Assign without line 134: the merged constraints are persisted, the candidate is not bound.
Assign_unbound(st, frame) ==
    [st EXCEPT !.constraints[frame.request.package] = frame.aggregated]

\* Lines 125-135: bind the frame's current candidate and persist the merged constraints.
Assign(st, frame) ==
    [st EXCEPT !.assignments = Put(@, frame.request.package,
                                   PackageSelection(frame.candidates[frame.ci])),
               !.constraints[frame.request.package] = frame.aggregated]

\* compute_resolution returns (plan, conflicts) to build_report (lines 387-411).
ReturnToBuildReport(plan) ==
    /\ call' = Nil
    /\ error' = Nil
    /\ stack' = <<>>
    /\ IF mode = "minimal"
       THEN /\ minimal_plan' = plan
            /\ minimal_conflicts' = conflicts
            /\ UNCHANGED <<locked_plan, locked_conflicts>>
            /\ IF locked_r # None
               THEN mode' = "locked" /\ pc' = "compute_resolution"
               ELSE mode' = mode /\ pc' = "report"
       ELSE /\ locked_plan' = plan
            /\ locked_conflicts' = conflicts
            /\ UNCHANGED <<minimal_plan, minimal_conflicts, mode>>
            /\ pc' = "report"
    /\ UNCHANGED <<outcome, downgrades>>

\* solver.solve(cloned_targets, r) is entered (lines 58-62).
BeginSolve(r) ==
    /\ pc' = "solve"
    /\ state' = ResolutionState(r)
    /\ target_i' = 1
    /\ stack' = <<>>
    /\ call' = Nil
    /\ error' = Nil

\* SetOrder when each sorted(set(...)) may order equal-comparing entries anew.
SetOrder_fresh(lists) == lists

\* The order in which a set yields entries that compare equal is not specified, but
\* it is a function of the entries inserted: once observed in a process, the same
\* entries come out in the same order.
SetOrder(lists) == IF set_order = {} THEN lists ELSE set_order

\* compute_resolution, lines 314-352: clone the targets, look up the releases'
\* R requirements, then either solve under the locked R or build the candidate list.
ComputeResolution ==
    /\ pc = "compute_resolution"
    /\ LET default_release == IF prefer_bioc_release # None THEN prefer_bioc_release
                              ELSE latest_bioconductor_release
           requirements == bioc_release_requirements(targets, default_release)
           lock == IF mode = "locked" THEN locked_r ELSE None
       IN  /\ cloned_targets' = ClonedTargets(targets, default_release)
           /\ release_requirements' = requirements
           /\ conflicts' = <<>>
           /\ IF lock # None
              THEN /\ BeginSolve(lock)
                   /\ candidate_versions' = <<>>
                   /\ candidate_i' = 0
                   /\ UNCHANGED set_order
              ELSE /\ candidate_versions' \in SetOrder(RCandidateLists(requirements))
                   /\ set_order' = {candidate_versions'}
                   /\ candidate_i' = 1
                   /\ pc' = "candidates"
                   /\ UNCHANGED <<state, target_i, stack, call, error>>
    /\ UNCHANGED <<inputs, provider_vars, function_vars, run, first_report, mode, report_vars, solve_log>>

\* The loop head of lines 354-365: skip an R below a release's requirement, else solve;
\* line 377 when the list is exhausted.
NextCandidate ==
    /\ pc = "candidates"
    /\ IF candidate_i > Len(candidate_versions)
       THEN /\ ReturnToBuildReport(Nil)
            /\ UNCHANGED <<state, target_i, candidate_i, solve_log>>
       ELSE LET candidate_str == candidate_versions[candidate_i]
                incompatible == \E release \in DOMAIN release_requirements :
                    compare_versions(candidate_str, release_requirements[release]) < 0
            IN  IF incompatible
                THEN /\ candidate_i' = candidate_i + 1
                     /\ solve_log' = Append(solve_log,
                            [mode |-> mode, r |-> candidate_str, result |-> "skipped"])
                     /\ UNCHANGED <<pc, mode, state, target_i, stack, call, error, report_vars>>
                ELSE /\ BeginSolve(candidate_str)
                     /\ UNCHANGED <<mode, candidate_i, solve_log, report_vars>>
    /\ UNCHANGED <<inputs, provider_vars, function_vars, run, first_report, set_order, cloned_targets, release_requirements, candidate_versions, conflicts>>

\* solve's loop over the targets (lines 63-73) and its return (line 74, then 337 or 366).
SolveTarget ==
    /\ pc = "solve" /\ stack = <<>> /\ call = Nil /\ error = Nil
    /\ IF target_i <= Len(cloned_targets)
       THEN LET target == cloned_targets[target_i]
            IN  /\ call' = PackageRequest(target.package, target.source, target.constraints,
                                          <<target.identifier>>, target.bioc_release)
                /\ target_i' = target_i + 1
                /\ UNCHANGED <<pc, mode, state, stack, error, report_vars, solve_log>>
       ELSE /\ ReturnToBuildReport([r_version |-> state.candidate_r,
                                    selections |-> state.assignments])
            /\ solve_log' = Append(solve_log,
                   [mode |-> mode, r |-> state.candidate_r, result |-> "plan"])
            /\ UNCHANGED <<state, target_i>>
    /\ UNCHANGED <<inputs, provider_vars, function_vars, run, first_report, set_order, cr_vars>>

\* The local variables of a call of _resolve_package that has its candidates;
\* entered keeps the assignments and constraints the call found, for comparison.
Frame(request, aggregated_constraints, candidates) ==
    [request |-> request,
     aggregated |-> aggregated_constraints,
     candidates |-> candidates,
     ci |-> 1,
     di |-> 1,
     previous_constraints |-> state.constraints[request.package],
     entered |-> [assignments |-> state.assignments, constraints |-> state.constraints],
     failures |-> {}]

\* Lines 113-135: raise when there is no candidate, else bind the first one.
TryCandidates(frame) ==
    IF frame.candidates = <<>>
    THEN /\ error' = ResolutionError(frame.request.package, frame.request.required_by,
                         {"No candidate versions satisfy constraints"}, <<"(none)">>)
         /\ UNCHANGED <<state, stack>>
    ELSE /\ state' = Assign([state EXCEPT !.visiting = @ \cup {frame.request.package}], frame)
         /\ stack' = Append(stack, frame)
         /\ UNCHANGED error

\* _resolve_package from its entry to the first candidate's binding (lines 78-135).
ResolvePackage ==
    /\ pc = "solve" /\ call # Nil
    /\ LET request == call
           package == request.package
           aggregated_constraints == state.constraints[package] \o request.constraints
       IN  IF package \in state.visiting
           THEN /\ error' = IF package \in DOMAIN state.assignments THEN Nil
                            ELSE ResolutionError(package, request.required_by,
                                                 {"Dependency cycle detected"}, <<>>)
                /\ UNCHANGED <<state, stack>>
           ELSE IF package \in DOMAIN state.assignments
           THEN LET existing_selection == state.assignments[package]
                IN  IF ~satisfies_all(existing_selection.version, aggregated_constraints)
                    THEN /\ error' = ResolutionError(package, request.required_by,
                                         {"does not satisfy new constraints"},
                                         <<existing_selection.version>>)
                         /\ UNCHANGED <<state, stack>>
                    ELSE IF /\ existing_selection.r_min # None
                            /\ compare_versions(state.candidate_r, existing_selection.r_min) < 0
                    THEN /\ error' = ResolutionError(package, request.required_by,
                                         {"requires R>="}, <<existing_selection.version>>)
                         /\ UNCHANGED <<state, stack>>
                    ELSE /\ state' = [state EXCEPT !.constraints[package] = aggregated_constraints]
                         /\ UNCHANGED <<error, stack>>
           ELSE TryCandidates(Frame(request, aggregated_constraints,
                        candidate_versions_for(request, state.candidate_r,
                            prefer_bioc_release, aggregated_constraints)))
    /\ call' = Nil
    /\ UNCHANGED <<inputs, provider_vars, function_vars, run, first_report, set_order, pc, mode, cr_vars, target_i, report_vars, solve_log>>

\* _resolve_dependencies' loop (lines 161-178) for the innermost call, and the
\* return of its _resolve_package when the loop is over (lines 138-139).
ResolveDependencies ==
    /\ pc = "solve" /\ call = Nil /\ error = Nil /\ stack # <<>>
    /\ LET frame == stack[Len(stack)]
           selection == PackageSelection(frame.candidates[frame.ci])
           dependencies == selection.dependencies
       IN  IF frame.di > Len(dependencies)
           THEN /\ state' = [state EXCEPT !.visiting = @ \ {frame.request.package}]
                /\ stack' = SubSeq(stack, 1, Len(stack) - 1)
                /\ call' = Nil
           ELSE LET dependency == dependencies[frame.di]
                IN  /\ stack' = [stack EXCEPT ![Len(stack)].di = @ + 1]
                    /\ call' = IF dependency.optional /\ ~include_optional THEN Nil
                               ELSE PackageRequest(dependency.name, infer_source(selection),
                                        dependency.constraints,
                                        frame.request.required_by \o <<selection.package>>,
                                        infer_bioc_release(selection, frame.request.bioc_release,
                                                           prefer_bioc_release))
                    /\ UNCHANGED state
    /\ UNCHANGED <<inputs, provider_vars, function_vars, run, first_report, set_order, pc, mode, cr_vars, target_i, error, report_vars, solve_log>>

\* NextCandidateOf with a loop that tries the failed candidate again.
NextCandidateOf_same(frame, failures) == [frame EXCEPT !.di = 1, !.failures = failures]

\* The loop `for candidate in candidates` goes on to the next candidate after a
\* failure; the failure's text is kept.
NextCandidateOf(frame, failures) ==
    [frame EXCEPT !.ci = @ + 1, !.di = 1, !.failures = failures]

\* The except clause of the innermost call (lines 140-143) and, when its candidates
\* are exhausted, lines 145-157.
Backtrack ==
    /\ pc = "solve" /\ error # Nil /\ stack # <<>>
    /\ LET frame == stack[Len(stack)]
           package == frame.request.package
           failures == frame.failures \cup error.message
           unbound == [state EXCEPT !.assignments = Del(@, package)]
       IN  IF frame.ci < Len(frame.candidates)
           THEN LET next == NextCandidateOf(frame, failures)
                IN  /\ state' = Assign(unbound, next)
                    /\ stack' = [stack EXCEPT ![Len(stack)] = next]
                    /\ error' = Nil
           ELSE /\ state' = [unbound EXCEPT !.visiting = @ \ {package},
                                            !.constraints[package] = frame.previous_constraints]
                /\ stack' = SubSeq(stack, 1, Len(stack) - 1)
                /\ error' = ResolutionError(package, frame.request.required_by, failures,
                                [i \in 1..Len(frame.candidates) |->
                                    <<frame.candidates[i].repo, frame.candidates[i].version>>])
    /\ UNCHANGED <<inputs, provider_vars, function_vars, run, first_report, set_order, pc, mode, cr_vars, target_i, call, report_vars, solve_log>>

\* compute_resolution's except clauses (lines 338-347 and 367-376): Conflict is built
\* with the keyword candidates, which models.Conflict (fields package, required_by,
\* message, candidates_considered) does not take: the constructor raises TypeError,
\* nothing is appended to conflicts, and the TypeError leaves compute_resolution,
\* build_report and cmd_solve, whose handlers do not name it.
SolveFailed ==
    /\ pc = "solve" /\ error # Nil /\ stack = <<>>
    /\ outcome' = "TypeError"
    /\ pc' = "done"
    /\ solve_log' = Append(solve_log,
           [mode |-> mode, r |-> state.candidate_r, result |-> "failed"])
    /\ UNCHANGED <<inputs, provider_vars, function_vars, run, first_report, set_order, mode, cr_vars, state, target_i, stack, call, error,
                   minimal_plan, minimal_conflicts, locked_plan, locked_conflicts, downgrades>>

\* compute_downgrades with the strict comparison of line 45 made non-strict.
compute_downgrades_non_strict(minimal, locked) ==
    {<<package, minimal.selections[package].version, locked.selections[package].version>> :
        package \in {q \in DOMAIN minimal.selections \cap DOMAIN locked.selections :
            compare_versions(locked.selections[q].version, minimal.selections[q].version) <= 0}}

\* _compute_downgrades listing the locked version before the minimal one.
compute_downgrades_swapped(minimal, locked) ==
    {<<package, locked.selections[package].version, minimal.selections[package].version>> :
        package \in {q \in DOMAIN minimal.selections \cap DOMAIN locked.selections :
            compare_versions(locked.selections[q].version, minimal.selections[q].version) < 0}}

\* report._compute_downgrades, as the set of the triples it lists.
compute_downgrades(minimal, locked) ==
    {<<package, minimal.selections[package].version, locked.selections[package].version>> :
        package \in {q \in DOMAIN minimal.selections \cap DOMAIN locked.selections :
            compare_versions(locked.selections[q].version, minimal.selections[q].version) < 0}}

\* build_report returns the report and generate_text presents it (report.py 50-77).
GenerateReport ==
    /\ pc = "report"
    /\ downgrades' = IF locked_r # None /\ locked_plan # Nil /\ minimal_plan # Nil
                     THEN compute_downgrades(minimal_plan, locked_plan)
                     ELSE {}
    /\ outcome' = "returned"
    /\ pc' = "done"
    /\ UNCHANGED <<inputs, provider_vars, function_vars, run, first_report, set_order, mode, cr_vars, state, target_i, stack, call, error,
                   minimal_plan, minimal_conflicts, locked_plan, locked_conflicts, solve_log>>

\* What build_report returned, or the exception that left it.
Report ==
    [minimal_plan |-> minimal_plan, locked_plan |-> locked_plan,
     conflicts |-> minimal_conflicts, locked_conflicts |-> locked_conflicts,
     downgrades |-> downgrades, outcome |-> outcome]

\* build_report is called again in the same process, with the same arguments and
\* the same provider.
RunAgain ==
    /\ pc = "done" /\ run = 1
    /\ run' = 2
    /\ first_report' = Report
    /\ pc' = "compute_resolution"
    /\ mode' = "minimal"
    /\ cloned_targets' = <<>>
    /\ release_requirements' = EmptyDict
    /\ candidate_versions' = <<>>
    /\ candidate_i' = 0
    /\ conflicts' = <<>>
    /\ state' = NoState
    /\ target_i' = 0
    /\ stack' = <<>>
    /\ call' = Nil
    /\ error' = Nil
    /\ minimal_plan' = Nil
    /\ minimal_conflicts' = <<>>
    /\ locked_plan' = Nil
    /\ locked_conflicts' = <<>>
    /\ outcome' = "running"
    /\ downgrades' = {}
    /\ solve_log' = <<>>
    /\ UNCHANGED <<inputs, provider_vars, function_vars, set_order>>

Next ==
    \/ ComputeResolution
    \/ NextCandidate
    \/ SolveTarget
    \/ ResolvePackage
    \/ ResolveDependencies
    \/ Backtrack
    \/ SolveFailed
    \/ GenerateReport

Spec == Init /\ [][Next]_vars

\* build_report on configurations with cycles.  The program is one thread that
\* runs until build_report returns or an exception leaves it: a step that can
\* be taken is taken.
FairInit == InitFor(CycleLists)

\* Weak fairness of Next, WF_vars(Next), with ENABLED <<Next>>_vars written out:
\* a step can be taken exactly while build_report has not ended.
Fairness == []<>(pc = "done") \/ []<><<Next>>_vars

FairSpec == FairInit /\ [][Next]_vars /\ Fairness

MaxRepeatTargets == 1

\* A process that calls build_report twice.
RepeatInit == Init /\ Len(targets) <= MaxRepeatTargets

RepeatNext == Next \/ RunAgain

RepeatSpec == RepeatInit /\ [][RepeatNext]_vars

\* list(reversed(seq))
Reversed(seq) == [i \in 1..Len(seq) |-> seq[Len(seq) + 1 - i]]

\* build_report is called again in the same process with the targets declared
\* in the opposite order, everything else the same.
RunReordered ==
    /\ pc = "done" /\ run = 1
    /\ run' = 2
    /\ first_report' = Report
    /\ targets' = Reversed(targets)
    /\ pc' = "compute_resolution"
    /\ mode' = "minimal"
    /\ cloned_targets' = <<>>
    /\ release_requirements' = EmptyDict
    /\ candidate_versions' = <<>>
    /\ candidate_i' = 0
    /\ conflicts' = <<>>
    /\ state' = NoState
    /\ target_i' = 0
    /\ stack' = <<>>
    /\ call' = Nil
    /\ error' = Nil
    /\ minimal_plan' = Nil
    /\ minimal_conflicts' = <<>>
    /\ locked_plan' = Nil
    /\ locked_conflicts' = <<>>
    /\ outcome' = "running"
    /\ downgrades' = {}
    /\ solve_log' = <<>>
    /\ UNCHANGED <<include_optional, prefer_bioc_release, locked_r, provider_vars,
                   function_vars, set_order>>

\* Configurations with at least two targets.
ReorderInit == Init /\ Len(targets) >= 2

ReorderNext == Next \/ RunReordered

ReorderSpec == ReorderInit /\ [][ReorderNext]_vars

(***************************************************************************)
(* metadata.py: calls on one provider instance                             *)
(***************************************************************************)
MaxCalls == 3

NoRef == ""

\* What the callers ask for: packages crandb knows and one it does not, the
\* releases, a repository and two of its refs.
CranRequests == {"foo", "rlang", "C"}

BiocRequests == {"limma", "rlang"}

GithubRequests == {"user/MyPkg"}

RefChoices == {NoRef, "dev"}

\* A cache directory left by an earlier process.
CachedFoo == cache_store(EmptyCache, UpstreamCran["foo"], "cran", "foo")

\* The provider moves on and the call is recorded with the provider it found.
Called(source, key, before, result) ==
    /\ provider' = result.after
    /\ calls' = Append(calls, [source |-> source, key |-> key,
                               before |-> before, attempted |-> result.attempted,
                               fetched |-> result.fetched, raised |-> result.raised])

GetCranVersions ==
    /\ Len(calls) < MaxCalls
    /\ \E package \in CranRequests, up \in BOOLEAN :
           Called("cran", package, provider,
                  get_cran_versions(provider, package, up))
    /\ UNCHANGED <<resolver_vars, function_vars>>

GetBioconductorVersions ==
    /\ Len(calls) < MaxCalls
    /\ \E package \in BiocRequests, release \in BiocReleases, up \in BOOLEAN :
           Called("bioc", release, provider,
                  get_bioconductor_versions(provider, package, release, up))
    /\ UNCHANGED <<resolver_vars, function_vars>>

GetGithubVersion ==
    /\ Len(calls) < MaxCalls
    /\ \E slug \in GithubRequests, ref \in RefChoices, up \in BOOLEAN :
           Called("github", <<slug, ref>>, provider,
                  get_github_version(provider, slug, ref, up))
    /\ UNCHANGED <<resolver_vars, function_vars>>

\* MetadataProvider.get_versions: the dispatch on the source.
GetVersions ==
    /\ Len(calls) < MaxCalls
    /\ \E source \in {"cran", "bioc", "github", "svn"}, up \in BOOLEAN :
           \/ /\ source = "cran"
              /\ \E package \in CranRequests :
                     Called("cran", package, provider,
                            get_cran_versions(provider, package, up))
           \/ /\ source = "bioc"
              /\ \E package \in BiocRequests, release \in BiocReleases \cup {None} :
                     Called("bioc", release, provider,
                            IF release = None THEN Outcome(provider, FALSE, FALSE, TRUE)
                            ELSE get_bioconductor_versions(provider, package, release, up))
           \/ /\ source = "github"
              /\ \E package \in GithubRequests \cup {"PrettyName"}, ref \in RefChoices :
                     Called("github", <<package, ref>>, provider,
                            IF ~HasSlash(package) THEN Outcome(provider, FALSE, FALSE, TRUE)
                            ELSE get_github_version(provider, package, ref, up))
           \/ /\ source = "svn"
              /\ \E package \in CranRequests :
                     Called("svn", package, provider,
                            Outcome(provider, FALSE, FALSE, TRUE))
    /\ UNCHANGED <<resolver_vars, function_vars>>

\* A provider on an empty or a used cache directory; no build_report runs.
ProviderInit ==
    /\ provider \in {NewProvider(EmptyCache), NewProvider(CachedFoo)}
    /\ calls = <<>>
    /\ AtRestExcept("provider")

ProviderNext == GetCranVersions \/ GetBioconductorVersions \/ GetGithubVersion \/ GetVersions

ProviderSpec == ProviderInit /\ [][ProviderNext]_vars

(***************************************************************************)
(* metadata.py: normalisation of one payload                               *)
(***************************************************************************)
MaxEntries == 2

\* The entries a Depends or Imports field is made of: R with one lower bound,
\* with two, with an upper bound, without constraint, in lower case, and
\* packages, one of them a base package.
EntryChoices ==
    {Entry("R", << VersionConstraint(">=", r_3_5) >>),
     Entry("R", << VersionConstraint(">=", r_4_0), VersionConstraint(">=", r_3_5) >>),
     Entry("R", << VersionConstraint(">", r_3_4), VersionConstraint("<", r_4_3) >>),
     Entry("R", <<>>),
     Entry("r", << VersionConstraint(">=", r_4_0) >>),
     Entry("foo", << VersionConstraint(">=", v_1_0) >>),
     Entry("methods", <<>>)}

\* The lists of at most n entries.
RECURSIVE EntryLists(_)
EntryLists(n) ==
    IF n = 0 THEN {<<>>}
    ELSE EntryLists(n - 1) \cup
         {Append(list, entry) : list \in {l \in EntryLists(n - 1) : Len(l) = n - 1},
                                entry \in EntryChoices}

normalize_rest == <<resolver_vars, provider_vars, cache_vars, compare_vars, release_vars,
                    command_vars>>

\* A payload crandb holds for one version of a package.
NormalizeInit ==
    /\ payload \in {Payload(depends, imports, <<>>) :
                       depends \in EntryLists(MaxEntries), imports \in EntryLists(1)}
    /\ normalized = Nil
    /\ AtRestExcept("normalize")

\* get_cran_versions normalises the payload (metadata.py 215).
NormalizePayload ==
    /\ normalized = Nil
    /\ normalized' = normalize_cran_payload("foo", payload, v_1_0)
    /\ UNCHANGED <<payload, normalize_rest>>

NormalizeNext == NormalizePayload

NormalizeSpec == NormalizeInit /\ [][NormalizeNext]_vars

(***************************************************************************)
(* rversion.py: comparisons of version strings                             *)
(***************************************************************************)
MaxComponents == 2

\* The (number, suffix) components the generated versions are built from.
ComponentChoices == {<<0, <<>> >>, <<1, <<>> >>, <<1, <<"a">> >>}

\* The text of one component: its number, then its suffix.
ComponentText(component) == <<IF component[1] = 0 THEN "0" ELSE "1">> \o component[2]

\* The version strings of at most n components, joined by dots.
RECURSIVE VersionStrings(_)
VersionStrings(n) ==
    IF n = 1 THEN {ComponentText(component) : component \in ComponentChoices}
    ELSE VersionStrings(n - 1) \cup
         {text \o <<".">> \o ComponentText(component) :
              text \in VersionStrings(n - 1), component \in ComponentChoices}

\* The version strings of the documented orderings.
ExampleVersions ==
    {<<"1", ".", "0">>, <<"1", ".", "0", ".", "0">>, <<"1", ".", "1", "0">>,
     <<"1", ".", "9">>, <<"1", ".", "0", "-", "1">>, <<"1", ".", "0", "a">>,
     <<"1", ".", "0", "b">>, <<"2", ".", "0", ".", "0">>,
     <<"2", ".", "0", ".", "0", "-", "1">>}

compare_rest == <<resolver_vars, provider_vars, normalize_vars, cache_vars, release_vars,
                  command_vars>>

CompareInit ==
    /\ operands \in [a : VersionStrings(MaxComponents) \cup ExampleVersions,
                     b : VersionStrings(MaxComponents) \cup ExampleVersions,
                     c : VersionStrings(MaxComponents)]
    /\ compared = Nil
    /\ AtRestExcept("compare")

\* compare_versions on the pairs of the operands, and RVersion's == and <= on the
\* first pair.
Compare ==
    /\ compared = Nil
    /\ compared' = [eq |-> RVersionEq(operands.a, operands.b),
                    le |-> RVersionLe(operands.a, operands.b),
                    aa |-> compare_versions(operands.a, operands.a),
                    ab |-> compare_versions(operands.a, operands.b),
                    ba |-> compare_versions(operands.b, operands.a),
                    bc |-> compare_versions(operands.b, operands.c),
                    ac |-> compare_versions(operands.a, operands.c)]
    /\ UNCHANGED <<operands, compare_rest>>

CompareNext == Compare

CompareSpec == CompareInit /\ [][CompareNext]_vars

(***************************************************************************)
(* cache.py: MetadataCache over the files and directories under its root   *)
(***************************************************************************)
MaxOps == 3

\* _sanitize: every "/" of the segment becomes "__".
RECURSIVE sanitize(_)
sanitize(segment) ==
    IF segment = <<>> THEN <<>>
    ELSE (IF Head(segment) = "/" THEN <<"_", "_">> ELSE <<Head(segment)>>)
             \o sanitize(Tail(segment))

\* Lines 21-22: the path under the root, one component per sanitised segment.
PathOf(segments) == [i \in 1..Len(segments) |-> sanitize(segments[i])]

\* The directories above a path, the root left out.
ParentsOf(path) == {SubSeq(path, 1, n) : n \in 1..(Len(path) - 1)}

\* Line 23: path.parent.mkdir(parents=True, exist_ok=True) raises when a
\* component above the path is a file.
MkdirRaises(disk, path) == ParentsOf(path) \cap DOMAIN disk.files # {}

\* Line 23 when it does not raise: the directories above the path exist.
Mkdir(disk, path) == [disk EXCEPT !.dirs = @ \cup ParentsOf(path)]

Answer(raised, value) == [raised |-> raised, value |-> value]

\* json.dump followed by json.load: a JSON value comes back as it was, the
\* value null as None.
NoValue == "null"

\* What MetadataCache.load returns: the file's value, None for a path that does
\* not exist, an OSError for a path that is a directory.
LoadOf(disk, segments) ==
    IF MkdirRaises(disk, PathOf(segments)) THEN Answer(TRUE, NoValue)
    ELSE IF PathOf(segments) \in DOMAIN disk.files
    THEN Answer(FALSE, disk.files[PathOf(segments)])
    ELSE IF PathOf(segments) \in disk.dirs THEN Answer(TRUE, NoValue)
    ELSE Answer(FALSE, NoValue)

\* What MetadataCache.exists returns: Path.exists is true of files and directories.
ExistsOf(disk, segments) ==
    IF MkdirRaises(disk, PathOf(segments)) THEN Answer(TRUE, FALSE)
    ELSE Answer(FALSE, PathOf(segments) \in DOMAIN disk.files \cup disk.dirs)

\* MetadataCache.store: open(path, "w") raises on a directory.
StoreOn(disk, data, path) ==
    IF MkdirRaises(disk, path) THEN disk
    ELSE IF path \in disk.dirs THEN Mkdir(disk, path)
    ELSE [Mkdir(disk, path) EXCEPT !.files = (path :> data) @@ @]

StoreRaises(disk, path) == MkdirRaises(disk, path) \/ path \in disk.dirs

\* MetadataCache.drop: unlink raises on a directory.
DropOn(disk, path) ==
    IF MkdirRaises(disk, path) THEN disk
    ELSE [Mkdir(disk, path) EXCEPT
              !.files = [p \in DOMAIN @ \ {path} |-> @[p]]]

DropRaises(disk, path) == MkdirRaises(disk, path) \/ path \in disk.dirs

\* The segment sequences the callers use: one segment, two, and segments that
\* hold "/" or "__".
SegmentChoices ==
    {<< <<"a">> >>, << <<"b">> >>, << <<"a">>, <<"b">> >>,
     << <<"a", "/", "b">> >>, << <<"a", "_", "_", "b">> >>}

ValueChoices == {"v1", "v2", NoValue}

\* MetadataCache.ensure on a new root.
EmptyRoot == [files |-> [path \in {} |-> NoValue], dirs |-> {}]

cache_rest == <<resolver_vars, provider_vars, normalize_vars, compare_vars, release_vars,
                command_vars>>

CacheInit ==
    /\ fs = EmptyRoot
    /\ last_op = Nil
    /\ AtRestExcept("cache")

\* The call is recorded with the directory it found.
Did(op, segments, value, raised, after) ==
    /\ fs' = after
    /\ last_op' = [op |-> op, segments |-> segments, value |-> value, raised |-> raised,
                   before |-> fs, count |-> IF last_op = Nil THEN 1 ELSE last_op.count + 1]
    /\ UNCHANGED cache_rest

CanCall == IF last_op = Nil THEN TRUE ELSE last_op.count < MaxOps

Store ==
    /\ CanCall
    /\ \E segments \in SegmentChoices, data \in ValueChoices :
           Did("store", segments, data, StoreRaises(fs, PathOf(segments)),
               StoreOn(fs, data, PathOf(segments)))

Load ==
    /\ CanCall
    /\ \E segments \in SegmentChoices :
           Did("load", segments, LoadOf(fs, segments).value, LoadOf(fs, segments).raised,
               IF MkdirRaises(fs, PathOf(segments)) THEN fs ELSE Mkdir(fs, PathOf(segments)))

Exists ==
    /\ CanCall
    /\ \E segments \in SegmentChoices :
           Did("exists", segments, NoValue, ExistsOf(fs, segments).raised,
               IF MkdirRaises(fs, PathOf(segments)) THEN fs ELSE Mkdir(fs, PathOf(segments)))

Drop ==
    /\ CanCall
    /\ \E segments \in SegmentChoices :
           Did("drop", segments, NoValue, DropRaises(fs, PathOf(segments)),
               DropOn(fs, PathOf(segments)))

CacheNext == Store \/ Load \/ Exists \/ Drop

CacheSpec == CacheInit /\ [][CacheNext]_vars

(***************************************************************************)
(* fetchers.py: the four category requests of one Bioconductor release     *)
(***************************************************************************)
BIOC_CATEGORIES == <<"bioc", "data/annotation", "data/experiment", "workflows">>

NoPackages == [name \in {} |-> Nil]

\* _request_json raises MetadataFetchError for a status of 400 or more and for
\* a body that is not JSON.
RequestRaises(response) == response.status >= 400 \/ ~response.json

OnFetchError_abort(loop) == [loop EXCEPT !.left = TRUE]

\* `except MetadataFetchError: continue`: the category is left out and the loop
\* goes on.
OnFetchError(loop) == loop

\* Lines 44-47: every payload of the category is tagged and stored under its
\* name, over what an earlier category stored there.
Tagged(data, category) ==
    [name \in DOMAIN data |-> [Version |-> data[name].Version, category |-> category]]

\* One round of the loop over _BIOC_CATEGORIES; `left` says that an exception
\* has ended the loop.
AfterCategory(loop, category, response) ==
    IF loop.left THEN loop
    ELSE IF RequestRaises(response) THEN OnFetchError(loop)
    ELSE [loop EXCEPT !.aggregated = Tagged(response.data, category) @@ @]

RECURSIVE AggregateCategories(_, _)
AggregateCategories(answers, n) ==
    IF n = 0 THEN [left |-> FALSE, aggregated |-> NoPackages]
    ELSE AfterCategory(AggregateCategories(answers, n - 1), BIOC_CATEGORIES[n], answers[n])

\* Lines 48-50: an empty aggregate raises, any other is returned.
ReleaseResult(loop) ==
    IF loop.left \/ DOMAIN loop.aggregated = {}
    THEN [raised |-> TRUE, aggregated |-> NoPackages]
    ELSE [raised |-> FALSE, aggregated |-> loop.aggregated]

\* What bioconductor.org may answer for one category: a missing file, a body
\* that is not JSON, or a map of packages, some under a name that another
\* category has as well.
OwnName(category) ==
    CASE category = "bioc" -> "limma"
      [] category = "data/annotation" -> "org.Hs.eg.db"
      [] category = "data/experiment" -> "airway"
      [] OTHER -> "rnaseqGene"

OwnVersion(category) ==
    CASE category = "bioc" -> "1.0"
      [] category = "data/annotation" -> "2.0"
      [] category = "data/experiment" -> "3.0"
      [] OTHER -> "4.0"

Answered(data) == [status |-> 200, json |-> TRUE, data |-> data]

AnswerChoices(category) ==
    {[status |-> 404, json |-> FALSE, data |-> NoPackages],
     [status |-> 200, json |-> FALSE, data |-> NoPackages],
     Answered(NoPackages),
     Answered(OwnName(category) :> [Version |-> "1.0"]),
     Answered("shared" :> [Version |-> OwnVersion(category)]),
     Answered((OwnName(category) :> [Version |-> "1.0"])
                  @@ ("shared" :> [Version |-> OwnVersion(category)]))}

release_rest == <<resolver_vars, provider_vars, normalize_vars, cache_vars, compare_vars,
                  command_vars>>

\* One answer for each category, in the order of _BIOC_CATEGORIES.
ReleaseInit ==
    /\ responses \in AnswerChoices("bioc") \X AnswerChoices("data/annotation")
                         \X AnswerChoices("data/experiment") \X AnswerChoices("workflows")
    /\ fetched_release = Nil
    /\ AtRestExcept("release")

FetchRelease ==
    /\ fetched_release = Nil
    /\ fetched_release' = ReleaseResult(AggregateCategories(responses, Len(BIOC_CATEGORIES)))
    /\ UNCHANGED <<responses, release_rest>>

ReleaseNext == FetchRelease

ReleaseSpec == ReleaseInit /\ [][ReleaseNext]_vars

(***************************************************************************)
(* cli.py: the solve command from the configuration to build_report's      *)
(* arguments                                                               *)
(***************************************************************************)
\* config.TargetSpec as load_config leaves it: the source in lower case, no
\* constraint, no alias.
TargetSpec(package, source, bioc_release) ==
    [package |-> package, source |-> source, bioc_release |-> bioc_release]

\* a or b
Either(a, b) == IF a # None THEN a ELSE b

\* build_target_contexts for one target of cran or Bioconductor (lines 264-297).
ContextOf(spec, options) ==
    TargetContext(spec.package, spec.package, spec.source, <<>>,
        IF IsBiocTarget(spec)
        THEN Either(Either(spec.bioc_release, options.prefer_bioc_release),
                    latest_bioconductor_release)
        ELSE Either(spec.bioc_release, options.prefer_bioc_release))

build_target_contexts(conf) ==
    [i \in 1..Len(conf.targets) |-> ContextOf(conf.targets[i], conf.options)]

\* The release _load_versions_for_source reads for the request solve makes of a
\* target (solver.py 63-73 and 248).
RequestRelease(target, prefer) ==
    ReleaseFor(PackageRequest(target.package, target.source, target.constraints,
                              <<target.identifier>>, target.bioc_release), prefer)

\* cmd_solve down to the search: the contexts, build_report's prefer_bioc_release,
\* compute_resolution's release requirements and the release each target's
\* request is read at.
Solving(built, prefer_bioc) ==
    [targets |-> built,
     prefer_bioc_release |-> prefer_bioc,
     release_requirements |->
         bioc_release_requirements(built, Either(prefer_bioc, latest_bioconductor_release)),
     releases |->
         [i \in 1..Len(built) |->
             RequestRelease(
                 ClonedTargets(built, Either(prefer_bioc, latest_bioconductor_release))[i],
                 prefer_bioc)]]

cmd_solve(conf, arguments) ==
    Solving(build_target_contexts(conf),
            Either(arguments.prefer_bioc, conf.options.prefer_bioc_release))

\* The configurations: one or two targets, Bioconductor targets with and
\* without a release, and the preferences of the configuration and of the
\* command line.
SpecChoices ==
    {TargetSpec("limma", "bioc", None), TargetSpec("limma", "bioc", rel_3_17),
     TargetSpec("edgeR", "bioconductor", None), TargetSpec("ggplot2", "cran", None)}

SpecLists ==
    {<<one>> : one \in SpecChoices}
        \cup {pair \in SpecChoices \X SpecChoices : pair[1] # pair[2]}

PreferChoices == {None, rel_3_12, rel_3_17}

command_rest == <<resolver_vars, provider_vars, normalize_vars, cache_vars, compare_vars,
                  release_vars>>

CommandInit ==
    /\ config \in [targets : SpecLists, options : [prefer_bioc_release : PreferChoices]]
    /\ args \in [prefer_bioc : PreferChoices]
    /\ contexts = Nil
    /\ AtRestExcept("command")

CmdSolve ==
    /\ contexts = Nil
    /\ contexts' = cmd_solve(config, args)
    /\ UNCHANGED <<config, args, command_rest>>

CommandNext == CmdSolve

CommandSpec == CommandInit /\ [][CommandNext]_vars

(***************************************************************************)
(* Properties                                                              *)
(***************************************************************************)
\* The compute_resolution without a locked R has just ended, by a return or by an
\* exception; candidate_versions and solve_log are still its own.
MinimalEnded ==
    \/ mode = "minimal" /\ pc \in {"report", "done"}
    \/ mode = "locked" /\ pc = "compute_resolution"

\* The compute_resolution under the locked R has ended.
LockedEnded == mode = "locked" /\ pc \in {"report", "done"}

ReturnedPlans == {minimal_plan, locked_plan} \ {Nil}

NotTried(entry) == entry.result \in {"skipped", "failed"}

\* C1: without a locked R, compute_resolution ends with the plan of the first
\* feasible R: every candidate before the plan's R was skipped or failed, and it
\* ends without a plan only when every candidate of the list was skipped or failed.
C1_FirstFeasibleR ==
    MinimalEnded =>
        IF minimal_plan # Nil
        THEN /\ Len(solve_log) <= Len(candidate_versions)
             /\ \A i \in 1..(Len(solve_log) - 1) :
                    NotTried(solve_log[i]) /\ solve_log[i].r = candidate_versions[i]
             /\ solve_log[Len(solve_log)].result = "plan"
             /\ minimal_plan.r_version = candidate_versions[Len(solve_log)]
        ELSE /\ Len(solve_log) = Len(candidate_versions)
             /\ \A i \in 1..Len(solve_log) : NotTried(solve_log[i])

\* C2: in every returned plan, minimal or locked, a selection's r_min, when set,
\* is <= the plan's r_version.
C2_RMinWithinRVersion ==
    \A plan \in ReturnedPlans : \A p \in DOMAIN plan.selections :
        plan.selections[p].r_min # None =>
            compare_versions(plan.selections[p].r_min, plan.r_version) <= 0

\* A plan reached through a backtrack (A 2.0 abandoned for A 1.0) and a second
\* request of the already assigned B, whose r_min is set.
C2_Witness ==
    /\ minimal_plan # Nil
    /\ DOMAIN minimal_plan.selections = {"A", "B"}
    /\ minimal_plan.selections["A"].version = v_1_0
    /\ minimal_plan.selections["B"].r_min = r_3_5

\* C3: in every returned plan, each dependency of each selection that is not a
\* skipped optional one has a selection.
C3_DependenciesSelected ==
    \A plan \in ReturnedPlans : \A p \in DOMAIN plan.selections :
        \A i \in 1..Len(plan.selections[p].dependencies) :
            LET dependency == plan.selections[p].dependencies[i]
            IN  ~(dependency.optional /\ ~include_optional) =>
                    dependency.name \in DOMAIN plan.selections

\* C4: at every point of a solve, and when its plan is returned, every assigned
\* package's version satisfies all the constraints accumulated for it.
C4_AssignmentsSatisfyConstraints ==
    \A p \in DOMAIN state.assignments :
        satisfies_all(state.assignments[p].version, state.constraints[p])

\* limma was bound as a target, then requested again by edgeR with >= 3.41.5, which
\* the existing selection was checked against and which was then accumulated.
C4_Witness ==
    /\ targets = <<t_limma_3_17, t_edgeR>>
    /\ pc = "solve"
    /\ DOMAIN state.assignments = {"limma", "edgeR"}
    /\ Len(state.constraints["limma"]) = 1
    /\ state.constraints["limma"][1].operator = ">="

\* C5: every returned plan, with or without a locked R, has r_version >= the R
\* series of every Bioconductor release its targets refer to.
C5_BiocCompatibility ==
    \A plan \in ReturnedPlans : \A release \in DOMAIN release_requirements :
        compare_versions(plan.r_version, release_requirements[release]) >= 0

\* C6: a failed R is recorded as one Conflict and the search goes on: no exception
\* leaves compute_resolution, and conflicts holds one entry per failed attempt.
C6_FailedRBecomesConflict ==
    /\ outcome \in {"running", "returned"}
    /\ Len(conflicts) =
           Cardinality({i \in 1..Len(solve_log) :
               solve_log[i].mode = mode /\ solve_log[i].result = "failed"})

Scenario3 == targets = <<t_ggplot2>> /\ locked_r = r_3_6_3

\* C7 as stated: the minimal plan selects ggplot2 3.5.0 under R 4.0.0, the locked
\* plan 3.4.4 under R 3.6.3, and the downgrade 3.5.0 -> 3.4.4 is listed.
C7_AsStated ==
    (Scenario3 /\ pc = "done") =>
        /\ outcome = "returned"
        /\ minimal_plan # Nil /\ locked_plan # Nil
        /\ minimal_plan.r_version = r_4_0_0
        /\ minimal_plan.selections["ggplot2"].version = v_3_5_0
        /\ locked_plan.r_version = r_3_6_3
        /\ locked_plan.selections["ggplot2"].version = v_3_4_4
        /\ downgrades = {<<"ggplot2", v_3_5_0, v_3_4_4>>}

\* C7 amended: the minimal plan is that of the first feasible R, 3.6.0, where 3.5.0
\* is filtered out and 3.4.4 is selected; the locked plan selects 3.4.4 under
\* R 3.6.3; no downgrade is listed.
C7_LockedRScenario ==
    (Scenario3 /\ pc = "done") =>
        /\ outcome = "returned"
        /\ minimal_plan # Nil /\ locked_plan # Nil
        /\ minimal_plan.r_version = r_3_6_0
        /\ minimal_plan.selections["ggplot2"].version = v_3_4_4
        /\ locked_plan.r_version = r_3_6_3
        /\ locked_plan.selections["ggplot2"].version = v_3_4_4
        /\ downgrades = {}

C7_Witness == Scenario3 /\ pc = "done" /\ outcome = "returned" /\ locked_plan # Nil

Scenario2 == targets = <<t_limma_3_17>> /\ locked_r = None

Scenario4 == targets = <<t_foo_9_9>> /\ locked_r = None

\* C9: an unsatisfiable constraint ends in a result with no minimal plan and exactly
\* one conflict, on that package, with candidates ["(none)"].
C9_UnsatisfiableConstraint ==
    (Scenario4 /\ pc = "done") =>
        /\ outcome = "returned"
        /\ minimal_plan = Nil
        /\ Len(minimal_conflicts) = 1
        /\ minimal_conflicts[1].package = "foo"
        /\ minimal_conflicts[1].candidates = <<"(none)">>

\* C10: under a locked R, solve is attempted once, with that R, and the result is a
\* plan for that R with no conflict, or no plan with exactly one conflict.
C10_LockedROnly ==
    LockedEnded =>
        LET attempts == {i \in 1..Len(solve_log) : solve_log[i].mode = "locked"}
        IN  /\ Cardinality(attempts) = 1
            /\ \A i \in attempts : solve_log[i].r = locked_r /\ solve_log[i].result # "skipped"
            /\ \/ /\ locked_plan # Nil
                  /\ locked_plan.r_version = locked_r
                  /\ locked_conflicts = <<>>
               \/ /\ locked_plan = Nil
                  /\ Len(locked_conflicts) = 1

\* The versions of a list whose R requirement the candidate R meets.
Admissible(versions, r) ==
    {versions[i].version : i \in {j \in 1..Len(versions) :
        \/ versions[j].r_min = None
        \/ compare_versions(versions[j].r_min, r) <= 0}}

IsHighest(version, admissible) ==
    /\ version \in admissible
    /\ \A other \in admissible : compare_versions(other, version) <= 0

HasTarget(target) == \E i \in 1..Len(targets) : targets[i] = target

\* C11: X and Y depend on each other without constraints.  A plan returned for the
\* target X holds both, each bound to its highest version whose R requirement is <=
\* the plan's R; and with X the only target no solve fails under an R that admits a
\* version of each.
C11_CycleHandling ==
    \A package \in {"X", "Y"} :
        LET available(r) == Admissible(CranIndex[package], r)
        IN  /\ \A plan \in ReturnedPlans :
                   HasTarget(t_X) =>
                       /\ package \in DOMAIN plan.selections
                       /\ IsHighest(plan.selections[package].version,
                                    available(plan.r_version))
            /\ targets = <<t_X>> =>
                   \A i \in 1..Len(solve_log) :
                       solve_log[i].result = "failed" =>
                           \E other \in {"X", "Y"} :
                               Admissible(CranIndex[other], solve_log[i].r) = {}

\* The target X alone: a minimal plan under the first R and a locked one, with both
\* packages of the cycle bound.
C11_Witness ==
    /\ targets = <<t_X>>
    /\ pc = "done"
    /\ minimal_plan # Nil /\ locked_plan # Nil
    /\ DOMAIN locked_plan.selections = {"X", "Y"}
    /\ locked_plan.selections["Y"].version = v_1_0

C13_GithubRename ==
    (targets = <<t_github>> /\ pc = "done") =>
        /\ outcome = "returned"
        /\ minimal_plan # Nil
        /\ "PrettyName" \in DOMAIN minimal_plan.selections
        /\ minimal_plan.selections["PrettyName"].repo = "GitHub"
        /\ minimal_plan.selections["PrettyName"].version = GithubIndex["user/MyPkg"].version

\* The names in the Suggests field of the payload that the repository holds for
\* a CRAN selection.
SuggestsOf(selection) ==
    LET raw == UpstreamCran[selection.package]
    IN  UNION {{raw[i][2].Suggests[j][1] : j \in 1..Len(raw[i][2].Suggests)} :
                   i \in {k \in 1..Len(raw) : raw[k][1] = selection.version}}

\* The names a plan's selections need: their Depends, Imports and LinkingTo.
HardDependenciesOf(plan) ==
    UNION {{plan.selections[package].dependencies[j].name :
                j \in {k \in 1..Len(plan.selections[package].dependencies) :
                          ~plan.selections[package].dependencies[k].optional}} :
           package \in DOMAIN plan.selections}

TargetPackages == {targets[i].package : i \in 1..Len(targets)}

\* C14: Suggests are resolved if and only if include_optional is set. Without
\* it a package that selected packages only suggest has no selection; with it
\* every package suggested by a selected CRAN package that has a version
\* admissible under the plan's R has a selection in the plan.
C14_SuggestsIffOptional ==
    \A plan \in ReturnedPlans :
        \A package \in {p \in DOMAIN plan.selections : plan.selections[p].repo = "CRAN"} :
            \A suggested \in SuggestsOf(plan.selections[package]) :
                IF include_optional
                THEN Admissible(CranIndex[suggested], plan.r_version) # {}
                         => suggested \in DOMAIN plan.selections
                ELSE suggested \in DOMAIN plan.selections
                         => suggested \in TargetPackages \cup HardDependenciesOf(plan)

\* The positions of a candidate list that hold versions of one repository.
PositionsOf(candidates, repo) == {i \in 1..Len(candidates) : candidates[i].repo = repo}

\* Every candidate of repository first stands before every candidate of repository second.
Precedes(candidates, first, second) ==
    \A i \in PositionsOf(candidates, first) :
        \A j \in PositionsOf(candidates, second) : i < j

\* The repository a source names.
RepoOfSource(source) ==
    CASE source = "cran" -> "CRAN"
      [] source \in {"bioc", "bioconductor"} -> "Bioconductor"
      [] source = "github" -> "GitHub"
      [] OTHER -> "none"

\* The order the claim asks of the candidates of one call of _resolve_package;
\* bioc_parent says the call came from a selection of Bioconductor.
CandidateOrder(request, candidates, bioc_parent) ==
    /\ \A other \in {"CRAN", "Bioconductor", "GitHub"} \ {RepoOfSource(request.source)} :
           Precedes(candidates, RepoOfSource(request.source), other)
    /\ request.source = NoSource => Precedes(candidates, "CRAN", "Bioconductor")
    /\ bioc_parent => Precedes(candidates, "Bioconductor", "CRAN")
    /\ \A i, j \in 1..Len(candidates) :
           i < j =>
               /\ candidates[i].repo = candidates[j].repo =>
                      compare_versions(candidates[i].version, candidates[j].version) >= 0
               /\ <<candidates[i].repo, candidates[i].version>>
                      # <<candidates[j].repo, candidates[j].version>>

\* The call of frame i was made for a dependency of a Bioconductor selection.
BiocParent(i) ==
    /\ i > 1
    /\ stack[i - 1].candidates[stack[i - 1].ci].repo = "Bioconductor"

\* C15: in every call of _resolve_package the candidates of the requested
\* source come first, CRAN candidates precede Bioconductor ones when no source
\* is requested, Bioconductor candidates precede CRAN ones when the parent
\* selection is from Bioconductor, candidates of one repository are in
\* descending version order, and no (repo, version) occurs twice.
C15_CandidateOrder ==
    \A i \in 1..Len(stack) :
        CandidateOrder(stack[i].request, stack[i].candidates, BiocParent(i))

\* A dependency of a Bioconductor selection with candidates in both repositories.
C15_Witness ==
    \E i \in 1..Len(stack) :
        /\ BiocParent(i)
        /\ PositionsOf(stack[i].candidates, "Bioconductor") # {}
        /\ Cardinality(PositionsOf(stack[i].candidates, "CRAN")) >= 2

\* C16: the R candidates compute_resolution iterates over are deduplicated and
\* strictly ascending under compare_versions: every entry compares greater
\* than the one before it, so no two entries compare equal.
C16_RCandidatesStrictlyAscending ==
    \A i \in 1..(Len(candidate_versions) - 1) :
        compare_versions(candidate_versions[i], candidate_versions[i + 1]) < 0

\* C17: the downgrades of a report with both plans are exactly the packages
\* selected in both plans whose locked version compares lower than the minimal
\* one, each listed as (name, minimal version, locked version).
C17_DowngradesExact ==
    (pc = "done" /\ minimal_plan # Nil /\ locked_plan # Nil) =>
        /\ \A package \in PackageNames :
               (\E entry \in downgrades : entry[1] = package)
                   <=> /\ package \in DOMAIN minimal_plan.selections
                       /\ package \in DOMAIN locked_plan.selections
                       /\ compare_versions(locked_plan.selections[package].version,
                                           minimal_plan.selections[package].version) < 0
        /\ \A entry \in downgrades :
               /\ entry[2] = minimal_plan.selections[entry[1]].version
               /\ entry[3] = locked_plan.selections[entry[1]].version

\* A report that lists a downgrade next to a package selected alike in both plans.
C17_Witness ==
    /\ pc = "done" /\ minimal_plan # Nil /\ locked_plan # Nil
    /\ downgrades # {}
    /\ \E package \in DOMAIN minimal_plan.selections \cap DOMAIN locked_plan.selections :
           \A entry \in downgrades : entry[1] # package

\* Two calls are about the same upstream resource.
SameKey(a, b) == a.source = b.source /\ a.key = b.key

\* C18: within one provider instance a (source, key) that was fetched
\* successfully is not fetched again: every later call for the same CRAN
\* package, Bioconductor release or GitHub (owner, repo, ref) is served
\* without going upstream.
C18_FetchedAtMostOnce ==
    \A i, j \in 1..Len(calls) :
        (i < j /\ SameKey(calls[i], calls[j]) /\ calls[i].fetched) => ~calls[j].attempted

\* The provider as call i left it.
ProviderAfter(i) == IF i = Len(calls) THEN provider ELSE calls[i + 1].before

DependencyNames(version) ==
    {version.dependencies[j].name : j \in 1..Len(version.dependencies)}

\* C20: no normalised PackageVersion the provider hands to the resolver lists
\* one of the 14 base R packages as a dependency, and _resolve_package is never
\* called for a base package.
C20_NoBasePackages ==
    /\ \A i \in 1..Len(stack) :
           \A k \in 1..Len(stack[i].candidates) :
               DependencyNames(stack[i].candidates[k]) \cap BASE_R_PACKAGES = {}
    /\ call # Nil => call.package \notin BASE_R_PACKAGES

\* The entries of the fields _build_dependencies reads without include_optional.
HardEntries(fields) ==
    {fields.Depends[i] : i \in 1..Len(fields.Depends)}
        \cup {fields.Imports[i] : i \in 1..Len(fields.Imports)}
        \cup {fields.LinkingTo[i] : i \in 1..Len(fields.LinkingTo)}

\* The versions of the >= and > constraints of an entry.
LowerBoundsOf(entry) ==
    {entry[2][k].version : k \in {n \in 1..Len(entry[2]) : entry[2][n].operator \in {">=", ">"}}}

\* The versions of all >= and > constraints on R in the payload.
RLowerBounds(fields) ==
    UNION {LowerBoundsOf(entry) : entry \in {e \in HardEntries(fields) : e[1] \in {"R", "r"}}}

\* C21: r_min of a normalised PackageVersion is the maximum of the versions of
\* all >= and > constraints on R in the payload, across entries and inside one
\* entry, and is unset exactly when there is no such constraint.
C21_RMinIsMaximum ==
    normalized # Nil =>
        IF RLowerBounds(payload) = {} THEN normalized.r_min = None
        ELSE /\ normalized.r_min \in RLowerBounds(payload)
             /\ \A bound \in RLowerBounds(payload) :
                    compare_versions(bound, normalized.r_min) <= 0

\* C22: no dependency named R, in either letter case, is left in the
\* dependencies of a normalised PackageVersion, with or without a constraint.
C22_NoRDependency ==
    normalized # Nil =>
        \A j \in 1..Len(normalized.dependencies) :
            normalized.dependencies[j].name \notin {"R", "r"}

\* A payload with an unconstrained R entry and a package: R is gone, the package stays.
C22_Witness ==
    /\ normalized # Nil
    /\ payload.Depends = << Entry("R", <<>>), Entry("foo", << VersionConstraint(">=", v_1_0) >>) >>
    /\ payload.Imports = << Entry("r", << VersionConstraint(">=", r_4_0) >>) >>
    /\ Len(normalized.dependencies) = 1
    /\ normalized.r_min = r_4_0

\* C25: compare is a total preorder: compare(a, a) = 0, compare(a, b) is the
\* opposite of compare(b, a), and compare(a, b) <= 0 with compare(b, c) <= 0
\* gives compare(a, c) <= 0, for versions of different numbers of components.
C25_TotalPreorder ==
    compared # Nil =>
        /\ compared.aa = 0
        /\ compared.ab \in {-1, 0, 1}
        /\ compared.ab = -compared.ba
        /\ (compared.ab <= 0 /\ compared.bc <= 0) => compared.ac <= 0

\* Three versions of one, two and two components in ascending order, two of
\* them with a suffix on the same number.
C25_Witness ==
    /\ compared # Nil
    /\ operands.a = <<"1">>
    /\ operands.b = <<"1", ".", "1">>
    /\ operands.c = <<"1", ".", "1", "a">>
    /\ compared.ab = -1 /\ compared.bc = -1 /\ compared.ac = -1

\* The component at position i of a version, (0, "") past its end.
Padded(version, i) ==
    IF i <= Len(Components(version)) THEN Components(version)[i] ELSE <<0, <<>> >>

\* The positions at which two versions differ once padded.
Differing(left, right) ==
    {i \in 1..(Len(left) + Len(right)) : Padded(left, i) # Padded(right, i)}

\* What the lexicographic order says of two versions: the first differing
\* component decides, by number and then by suffix.
Lexicographic(left, right) ==
    IF Differing(left, right) = {} THEN 0
    ELSE LET i == CHOOSE k \in Differing(left, right) :
                      \A other \in Differing(left, right) : k <= other
         IN  IF Padded(left, i)[1] < Padded(right, i)[1] THEN -1
             ELSE IF Padded(left, i)[1] > Padded(right, i)[1] THEN 1
             ELSE IF StrLess(Padded(left, i)[2], Padded(right, i)[2]) THEN -1 ELSE 1

Documented(left, right, expected) ==
    (operands.a = left /\ operands.b = right) => compared.ab = expected

\* C26: compare is the lexicographic order over the (number, suffix)
\* components with the shorter tuple padded by (0, ""), which gives
\* compare(1.0, 1.0.0) = 0, compare(1.10, 1.9) = 1, compare(1.0-1, 1.0) = 1,
\* compare(1.0a, 1.0b) = -1 and compare(2.0.0, 2.0.0-1) = -1.
C26_LexicographicOrder ==
    compared # Nil =>
        /\ compared.ab = Lexicographic(operands.a, operands.b)
        /\ Documented(<<"1", ".", "0">>, <<"1", ".", "0", ".", "0">>, 0)
        /\ Documented(<<"1", ".", "1", "0">>, <<"1", ".", "9">>, 1)
        /\ Documented(<<"1", ".", "0", "-", "1">>, <<"1", ".", "0">>, 1)
        /\ Documented(<<"1", ".", "0", "a">>, <<"1", ".", "0", "b">>, -1)
        /\ Documented(<<"2", ".", "0", ".", "0">>, <<"2", ".", "0", ".", "0", "-", "1">>, -1)

\* The comparison of 1.0 with 1.0.0 has been made.
C26_Witness ==
    /\ compared # Nil
    /\ operands.a = <<"1", ".", "0">>
    /\ operands.b = <<"1", ".", "0", ".", "0">>
    /\ compared.ab = 0 /\ compared.ba = 0

\* C23: the cache is a map over segment sequences: a store is followed by a
\* load that returns the stored value, exists is true exactly when load is not
\* null, and after a drop load is null and exists is false.
C23_CacheIsAMap ==
    /\ \A segments \in SegmentChoices :
           fs # Nil =>
               /\ ~LoadOf(fs, segments).raised
               /\ ~ExistsOf(fs, segments).raised
               /\ ExistsOf(fs, segments).value <=> LoadOf(fs, segments).value # NoValue
    /\ (last_op # Nil /\ last_op.op = "store") =>
           /\ ~last_op.raised
           /\ LoadOf(fs, last_op.segments) = Answer(FALSE, last_op.value)
    /\ (last_op # Nil /\ last_op.op = "drop") =>
           /\ ~last_op.raised
           /\ LoadOf(fs, last_op.segments) = Answer(FALSE, NoValue)
           /\ ExistsOf(fs, last_op.segments) = Answer(FALSE, FALSE)

\* C24: a store or a drop on one segment sequence leaves load and exists of
\* every other segment sequence as they were, also of one that has "__" where
\* the first has "/".
C24_OtherSegmentsUntouched ==
    (last_op # Nil /\ last_op.op \in {"store", "drop"}) =>
        \A other \in SegmentChoices \ {last_op.segments} :
            /\ LoadOf(fs, other) = LoadOf(last_op.before, other)
            /\ ExistsOf(fs, other) = ExistsOf(last_op.before, other)

\* The categories whose request returned packages.
Delivered(n) == ~RequestRaises(responses[n])

Offered(got, candidate_r, constraints) ==
    IF got.raised THEN {}
    ELSE {got.versions[k] : k \in {j \in 1..Len(got.versions) :
              /\ ~r_min_unmet(got.versions[j], candidate_r)
              /\ ~constraints_unmet(got.versions[j], constraints)}}

SourcesOf(request) == {SourceOrder(request)[k] : k \in 1..Len(SourceOrder(request))}

SourceRaises(request, source) ==
    load_versions_for_source(request, source, prefer_bioc_release).raised

\* What the sources of the source order that do not raise offer to a request.
OfferedTo(request, constraints) ==
    UNION {Offered(load_versions_for_source(request, source, prefer_bioc_release),
                   state.candidate_r, constraints) : source \in SourcesOf(request)}

\* A step of _resolve_package that generates candidates had these to generate:
\* without any it raises, else it goes on with exactly these.
CandidatesAre(offered) ==
    IF offered = {} THEN error' # Nil /\ stack' = stack
    ELSE /\ Len(stack') = Len(stack) + 1
         /\ {stack'[Len(stack')].candidates[k] :
                 k \in 1..Len(stack'[Len(stack')].candidates)} = offered

\* C29: in every call of _resolve_package that generates candidates, the
\* candidates are the versions offered by the sources of the source order that
\* did not raise, whether or not another source raised, and GitHub is among the
\* sources, and a GitHub version among the candidates, only when GitHub is the
\* request's own source.
C29_FetchErrorSkipsOneSource ==
    [][(/\ pc = "solve"
        /\ call # Nil
        /\ call.package \notin state.visiting
        /\ call.package \notin DOMAIN state.assignments)
       => /\ CandidatesAre(OfferedTo(call, state.constraints[call.package] \o call.constraints))
          /\ \/ call.source = "github"
             \/ /\ "github" \notin SourcesOf(call)
                /\ \A version \in OfferedTo(call, <<>>) : version.repo # "GitHub"]_vars

\* CRAN does not know the package of a call made for the source cran, and the
\* call has the candidates of Bioconductor.
C29_Witness ==
    \E i \in 1..Len(stack) :
        /\ stack[i].request.source = "cran"
        /\ SourceRaises(stack[i].request, "cran")
        /\ stack[i].candidates[1].repo = "Bioconductor"

\* C28: solve terminates, also on dependency cycles: every call of
\* _resolve_package that is running or waiting for its dependencies eventually
\* has returned or raised, and every solve eventually returns or raises.
C28_SolveTerminates ==
    /\ (call # Nil \/ stack # <<>>) ~> (call = Nil /\ stack = <<>>)
    /\ (pc = "solve") ~> (pc # "solve")

\* A call of _resolve_package for a package that is being resolved further up:
\* S itself, or one that closes a longer cycle.
C28_Witness ==
    /\ pc = "solve"
    /\ call # Nil
    /\ call.package \in state.visiting
    /\ \E i \in 1..Len(stack) : stack[i].request.package = call.package
    /\ call.package \in {"S", "X", "A"}

\* The releases the user prefers: that of the configuration, that of --prefer-bioc.
Preferences == {config.options.prefer_bioc_release, args.prefer_bioc} \ {None}

\* C30: a Bioconductor target declared without a release is read at a release
\* the user prefers whenever the configuration or --prefer-bioc gives one, at
\* the latest release of the table when neither does, and the R requirement
\* recorded for the run is that of the same release.
C30_PreferredReleaseUsed ==
    contexts # Nil =>
        \A i \in 1..Len(config.targets) :
            (IsBiocTarget(config.targets[i]) /\ config.targets[i].bioc_release = None) =>
                /\ IF Preferences = {}
                   THEN contexts.releases[i] = latest_bioconductor_release
                   ELSE contexts.releases[i] \in Preferences
                /\ contexts.releases[i] \in DOMAIN contexts.release_requirements
                /\ contexts.release_requirements[contexts.releases[i]] =
                       bioconductor_r_version(contexts.releases[i])

Bindings(st) == [assignments |-> st.assignments, constraints |-> st.constraints]

\* C31: a call of _resolve_package that raises ResolutionError leaves the
\* assignments and the constraints of every package as it found them: when it
\* raises before it has candidates, when its candidates are exhausted, and,
\* between two candidates, when the dependencies of the first have failed and
\* the next is bound.
C31_BacktrackRestoresState ==
    [][/\ (pc = "solve" /\ call # Nil /\ error' # Nil) =>
              Bindings(state') = Bindings(state)
       /\ (pc = "solve" /\ error # Nil /\ stack # <<>>) =>
              IF Len(stack') < Len(stack)
              THEN Bindings(state') = stack[Len(stack)].entered
              ELSE Bindings(state') =
                       Bindings(Assign([state EXCEPT
                                            !.assignments = stack[Len(stack)].entered.assignments,
                                            !.constraints = stack[Len(stack)].entered.constraints],
                                       stack'[Len(stack')]))]_vars

\* The dependencies of a selection that the run does not skip.
KeptDependencies(selection) ==
    {selection.dependencies[i] : i \in {j \in 1..Len(selection.dependencies) :
         ~(selection.dependencies[j].optional /\ ~include_optional)}}

\* C32: in every returned plan the version selected for a dependency satisfies
\* the constraints of every selection that depends on it, also on an edge that
\* closes a cycle.
C32_EdgesSatisfied ==
    \A plan \in ReturnedPlans : \A p \in DOMAIN plan.selections :
        \A dependency \in KeptDependencies(plan.selections[p]) :
            dependency.name \in DOMAIN plan.selections =>
                satisfies_all(plan.selections[dependency.name].version, dependency.constraints)

\* The packages reached from a set of packages through the dependencies, not
\* skipped, of the versions the plan selects.
RECURSIVE RequiredFrom(_, _)
RequiredFrom(plan, reached) ==
    LET further == reached \cup
            UNION {{dependency.name : dependency \in KeptDependencies(plan.selections[p])} :
                       p \in reached \cap DOMAIN plan.selections}
    IN  IF further = reached THEN reached ELSE RequiredFrom(plan, further)

\* C33: every package of a returned plan is a target or is reached from a
\* target through the dependencies of the selected versions.
C33_OnlyRequiredPackages ==
    \A plan \in ReturnedPlans :
        DOMAIN plan.selections \subseteq RequiredFrom(plan, TargetPackages)

\* The R series the table binds to the release of a Bioconductor selection.
ReleaseSeries(selection) == bioconductor_r_version(selection.bioc_release)

\* C34: in every returned plan a selection from Bioconductor belongs to a
\* release whose R series is <= the plan's r_version.
C34_BiocSelectionsFitR ==
    \A plan \in ReturnedPlans : \A p \in DOMAIN plan.selections :
        plan.selections[p].repo = "Bioconductor" =>
            /\ plan.selections[p].bioc_release # None
            /\ ReleaseSeries(plan.selections[p]) # None
            /\ compare_versions(ReleaseSeries(plan.selections[p]), plan.r_version) <= 0

\* C35: the solves of a run do not depend on the order in which the targets
\* are declared: with the order reversed they give the same plans (the same R
\* and the same selections) or fail alike.
C35_TargetOrderIrrelevant ==
    (run = 2 /\ pc = "done") =>
        /\ minimal_plan = first_report.minimal_plan
        /\ locked_plan = first_report.locked_plan
        /\ outcome = first_report.outcome

\* C36: whenever _resolve_package is entered, every package in visiting has an
\* assignment, and no call raises "Dependency cycle detected".
C36_VisitingAreAssigned ==
    /\ (pc = "solve" /\ call # Nil) => state.visiting \subseteq DOMAIN state.assignments
    /\ error # Nil => "Dependency cycle detected" \notin error.message

\* A call enters for a package that is in visiting: the branch that could raise.
C36_Witness ==
    /\ pc = "solve"
    /\ call # Nil
    /\ call.package \in state.visiting
    /\ Cardinality(state.visiting) >= 2

\* C37: two versions are equal as RVersion exactly when compare_versions gives 0,
\* and the first is <= the second exactly when compare_versions gives at most 0.
C37_EqualityAgreesWithCompare ==
    compared # Nil =>
        /\ compared.eq <=> (compared.ab = 0)
        /\ compared.le <=> (compared.ab <= 0)

====
